---- MODULE Spec2Model ----
(***************************************************************************)
(* A model of the fixed-point library (fixedpoint.h, fixedpoint/anyint.h,  *)
(* fixedpoint/stringify.h).                                                *)
(*                                                                         *)
(* Machine integers.  TLC's integers are 32 bits wide, the library's go up *)
(* to 64 bits and its double-width intermediates to 128.  A C++ integer of *)
(* width W is therefore modelled by its two's complement bit pattern, a    *)
(* little-endian sequence of W/8 limbs, each limb in 0..255.  The w*       *)
(* operators below are the C++ built-in operators on such patterns; signed *)
(* and unsigned operands share the pattern and differ in the operator      *)
(* applied (wShrA / wShrL, wSLt / wULt, wSExt / wZExt).                    *)
(***************************************************************************)
EXTENDS Integers, Sequences, FiniteSets, TLC

\* ---------------------------------------------------------------- words

\* the width in bits of a word
wBits(a) == 8 * Len(a)

wZero(n) == [i \in 1..n |-> 0]

wOnes(n) == [i \in 1..n |-> 255]

\* the pattern of a natural number v < 2^31 on n limbs
wNat(v, n) == [i \in 1..n |-> IF i <= 4 THEN (v \div (2^(8*(i-1)))) % 256 ELSE 0]

\* operator~
wNot(a) == [i \in 1..Len(a) |-> 255 - a[i]]

RECURSIVE wAddIter(_, _, _, _, _)
wAddIter(a, b, i, c, acc) ==
    IF i > Len(a) THEN acc
    ELSE LET s == a[i] + b[i] + c
         IN  wAddIter(a, b, i + 1, s \div 256, Append(acc, s % 256))

\* operator+ on two words of one width, wrapping modulo 2^W
wAdd(a, b) == wAddIter(a, b, 1, 0, <<>>)

\* operator- on two words of one width, wrapping modulo 2^W
wSub(a, b) == wAddIter(a, wNot(b), 1, 1, <<>>)

\* unary operator-
wNeg(a) == wSub(wZero(Len(a)), a)

\* the pattern of an integer v, -2^31 < v < 2^31, on n limbs
wInt(v, n) == IF v >= 0 THEN wNat(v, n) ELSE wNeg(wNat(-v, n))

\* the sign bit
wIsNeg(a) == a[Len(a)] >= 128

RECURSIVE limbAnd(_, _, _)
limbAnd(x, y, n) ==
    IF n = 0 THEN 0
    ELSE (x % 2) * (y % 2) + 2 * limbAnd(x \div 2, y \div 2, n - 1)

\* operator&
wAnd(a, b) == [i \in 1..Len(a) |-> limbAnd(a[i], b[i], 8)]

\* operator|
wOr(a, b) == [i \in 1..Len(a) |-> a[i] + b[i] - limbAnd(a[i], b[i], 8)]

\* operator^
wXor(a, b) == [i \in 1..Len(a) |-> a[i] + b[i] - 2 * limbAnd(a[i], b[i], 8)]

\* operator<< by 0 <= s < W, bits shifted out at the top are lost
wShl(a, s) ==
    LET q == s \div 8
        r == s % 8
        limb(i) == IF i < 1 THEN 0 ELSE a[i]
    IN  [i \in 1..Len(a) |->
            ((limb(i - q) * (2^r)) % 256) + (limb(i - q - 1) \div (2^(8 - r)))]

\* operator>> on a word, the vacated bits filled with the limb fill
wShrFill(a, s, fill) ==
    LET q == s \div 8
        r == s % 8
        limb(i) == IF i > Len(a) THEN fill ELSE a[i]
    IN  [i \in 1..Len(a) |->
            (limb(i + q) \div (2^r)) + ((limb(i + q + 1) * (2^(8 - r))) % 256)]

\* operator>> on an unsigned word, 0 <= s < W
wShrL(a, s) == wShrFill(a, s, 0)

\* operator>> on a signed word (arithmetic, as every supported compiler does)
wShrA(a, s) == wShrFill(a, s, IF wIsNeg(a) THEN 255 ELSE 0)

RECURSIVE wColSum(_, _, _, _)
wColSum(a, b, k, i) ==
    IF i > Len(a) \/ i > k + 1 THEN 0
    ELSE (IF k + 2 - i <= Len(b) THEN a[i] * b[k + 2 - i] ELSE 0)
         + wColSum(a, b, k, i + 1)

RECURSIVE wMulIter(_, _, _, _, _, _)
wMulIter(a, b, n, k, c, acc) ==
    IF k >= n THEN acc
    ELSE LET s == wColSum(a, b, k, 1) + c
         IN  wMulIter(a, b, n, k + 1, s \div 256, Append(acc, s % 256))

\* operator* on two unsigned words of one width, wrapping modulo 2^W
wMul(a, b) == wMulIter(a, b, Len(a), 0, 0, <<>>)

\* the full product of two unsigned words, on Len(a) + Len(b) limbs
wMulFull(a, b) == wMulIter(a, b, Len(a) + Len(b), 0, 0, <<>>)

RECURSIVE wULtFrom(_, _, _)
wULtFrom(a, b, i) ==
    IF i = 0 THEN FALSE
    ELSE IF a[i] # b[i] THEN a[i] < b[i]
    ELSE wULtFrom(a, b, i - 1)

\* operator< on unsigned words of one width
wULt(a, b) == wULtFrom(a, b, Len(a))

\* operator< on signed words of one width
wSLt(a, b) == IF wIsNeg(a) # wIsNeg(b) THEN wIsNeg(a) ELSE wULt(a, b)

\* operator<= on signed words of one width
wSLe(a, b) == ~wSLt(b, a)

\* conversion of a signed word to n limbs: sign extension or truncation
wSExt(a, n) ==
    [i \in 1..n |-> IF i <= Len(a) THEN a[i] ELSE IF wIsNeg(a) THEN 255 ELSE 0]

\* conversion of an unsigned word to n limbs: zero extension or truncation
wZExt(a, n) == [i \in 1..n |-> IF i <= Len(a) THEN a[i] ELSE 0]

\* the value of a signed word that is known to lie in -2^31+1 .. 2^31-1
wToInt(a) ==
    LET m == IF wIsNeg(a) THEN wNeg(a) ELSE a
        v == m[1] + (IF Len(m) >= 2 THEN 256 * m[2] ELSE 0)
                  + (IF Len(m) >= 3 THEN 65536 * m[3] ELSE 0)
                  + (IF Len(m) >= 4 THEN 16777216 * m[4] ELSE 0)
    IN  IF wIsNeg(a) THEN -v ELSE v

\* the most negative and the most positive signed word on n limbs
wMinS(n) == [i \in 1..n |-> IF i = n THEN 128 ELSE 0]

wMaxS(n) == [i \in 1..n |-> IF i = n THEN 127 ELSE 255]

\* whether the signed word a, of any width, is representable on n limbs
wFitsS(a, n) == n >= Len(a) \/ wSExt(wSExt(a, n), Len(a)) = a

\* whether the built-in signed a + b, a - b overflows its type (undefined
\* behaviour in C++)
wAddOvfS(a, b) ==
    ~wFitsS(wAdd(wSExt(a, Len(a) + 1), wSExt(b, Len(a) + 1)), Len(a))

wSubOvfS(a, b) ==
    ~wFitsS(wSub(wSExt(a, Len(a) + 1), wSExt(b, Len(a) + 1)), Len(a))

\* the usual arithmetic conversions: a type narrower than int is promoted to int
Promote(a) == IF Len(a) < 4 THEN wSExt(a, 4) ELSE a

PromoteU(a) == IF Len(a) < 4 THEN wZExt(a, 4) ELSE a

\* ------------------------------------------------ AnyInt (fixedpoint/anyint.h)

RECURSIVE limbLen(_)
limbLen(v) == IF v = 0 THEN 0 ELSE 1 + limbLen(v \div 2)

RECURSIVE wBitLen(_, _)
wBitLen(a, i) ==
    IF i = 0 THEN 0
    ELSE IF a[i] # 0 THEN 8 * (i - 1) + limbLen(a[i])
    ELSE wBitLen(a, i - 1)

\* clz of a nonzero word: __builtin_clz, __builtin_clzl, __builtin_clzll
clz(a) == wBits(a) - wBitLen(a, Len(a))

\* Log2Ceil(x) = bitsof(IntType) - clz(x), given what clz returned
Log2Ceil(a, c) == wBits(a) - c

\* AddOverflow with the sign test on the union of the two differences rather
\* than on their intersection: a sum whose sign differs from either operand's
AddOverflowEitherSign(a, b) ==
    LET n == Len(a)
        sum == wZExt(wAdd(PromoteU(a), PromoteU(b)), n)
    IN  wIsNeg(wZExt(wOr(wXor(PromoteU(a), PromoteU(sum)),
                         wXor(PromoteU(b), PromoteU(sum))), n))

\* AddOverflow(a, b): the sum is taken in the unsigned companion type
AddOverflow(a, b) ==
    LET n   == Len(a)
        aa  == a
        bb  == b
        sum == wZExt(wAdd(PromoteU(aa), PromoteU(bb)), n)
    IN  wIsNeg(wZExt(wAnd(wXor(PromoteU(aa), PromoteU(sum)),
                          wXor(PromoteU(bb), PromoteU(sum))), n))

\* SubOverflow(a, b)
SubOverflow(a, b) ==
    LET n    == Len(a)
        aa   == a
        bb   == b
        diff == wZExt(wSub(PromoteU(aa), PromoteU(bb)), n)
    IN  wIsNeg(wZExt(wAnd(wXor(PromoteU(bb), PromoteU(aa)),
                          wXor(PromoteU(bb), PromoteU(diff))), n))

\* operator>> of a signed or an unsigned word
wShr(a, s, sgn) == IF sgn THEN wShrA(a, s) ELSE wShrL(a, s)

\* conversion of a signed or an unsigned word to n limbs
wExt(a, n, sgn) == IF sgn THEN wSExt(a, n) ELSE wZExt(a, n)

\* ScaledAdd<IntType>(a, b, shift, N) for the types that have a DoubleType
\* (8, 16 and 32 bits); sgn tells a signed IntType from an unsigned one.
\* The sum is taken in DIntType, or in int where DIntType is promoted to it.
ScaledAddGeneric(a, b, shift, N, sgn) ==
    LET n == Len(a)
        d == IF 2 * n < 4 THEN 4 ELSE 2 * n
    IN  IF N < wBits(a)
        THEN wExt(wShr(wAdd(wExt(a, IF n < 4 THEN 4 ELSE n, sgn),
                            wExt(b, IF n < 4 THEN 4 ELSE n, sgn)), shift, sgn), n, sgn)
        ELSE wExt(wShr(wAdd(wExt(a, d, sgn), wExt(b, d, sgn)), shift, sgn), n, sgn)

\* the signed operations of ScaledAdd<Largest> that overflow (undefined
\* behaviour) for the operands a, b
ScaledAddLargestOverflows(a, b, shift, N) ==
    IF N < wBits(a)
    THEN wAddOvfS(a, b)
    ELSE wSubOvfS(b, a) \/ wAddOvfS(a, wShrA(wSub(b, a), 1))

\* ScaledAdd<Largest>(a, b, shift, N), the arithmetic wrapping on overflow
ScaledAddLargest(a, b, shift, N) ==
    IF N < wBits(a)
    THEN wShrA(wAdd(a, b), shift)
    ELSE wShrA(wAdd(a, wShrA(wSub(b, a), 1)), shift - 1)

\* ScaledAdd<ULargest>(a, b, shift, N): (Largest)ScaledAdd((Largest)a, (Largest)b, ...)
ScaledAddULargest(a, b, shift, N) == ScaledAddLargest(a, b, shift, N)

\* ScaledAdd as overload resolution picks it: the Largest specialisations for
\* 64-bit operands, the generic template below that
ScaledAdd(a, b, shift, N, sgn) ==
    IF Len(a) = 8
    THEN IF sgn THEN ScaledAddLargest(a, b, shift, N)
                ELSE ScaledAddULargest(a, b, shift, N)
    ELSE ScaledAddGeneric(a, b, shift, N, sgn)

\* MulHU<IntType>(a, b, shift) for the types that have a DoubleType: the
\* product is taken in DUIntType (in int for 8-bit operands)
MulHUGeneric(a, b, shift) ==
    LET n == Len(a)
        p == wMulFull(a, b)
    IN  wZExt(wShrL(IF 2 * n < 4 THEN wZExt(p, 4) ELSE p, shift), n)

\* MulHU<ULargest>(a, b, shift)
MulHULargest(a, b, shift) ==
    LET n       == Len(a)
        hs      == shift \div 2
        hs_mask == wSub(wShl(wNat(1, n), hs), wNat(1, n))
        ahi     == wShrL(a, hs)
        alo     == wAnd(a, hs_mask)
        bhi     == wShrL(b, hs)
        blo     == wAnd(b, hs_mask)
        mid1    == wShrL(wMul(ahi, blo), shift - hs - 1)
        mid2    == wShrL(wMul(alo, bhi), shift - hs - 1)
    IN  wAdd(wMul(ahi, bhi),
             ScaledAddULargest(mid1, mid2, 1, wBits(a) - (shift - hs - 1)))

\* MulHU as overload resolution picks it
MulHU(a, b, shift) ==
    IF Len(a) = 8 THEN MulHULargest(a, b, shift) ELSE MulHUGeneric(a, b, shift)

\* --------------------------------------------------- Fract (fixedpoint.h)

\* AnyInt::SelectFastest<N>::type, in limbs: int8_t, int32_t or int64_t
SelectFastest(N) == IF N <= 8 THEN 1 ELSE IF N <= 32 THEN 4 ELSE 8

\* AnyInt::SelectSmallest<N>::type, in limbs: int8_t, int16_t, int32_t or int64_t
SelectSmallest(N) == IF N <= 8 THEN 1 ELSE IF N <= 16 THEN 2 ELSE IF N <= 32 THEN 4 ELSE 8

\* a shape is <<I, F>>; IntType and TruncIntType of Fract<I,F>, in limbs
IntTypeOf(s) == SelectFastest(s[1] + s[2])

TruncIntTypeOf(s) == SelectSmallest(s[1])

\* the assertion of fit_in: assert(int(sizeof(IntType)*8) >= nbits)
fit_in_assert(xv, nbits) == wBits(xv) >= nbits

\* fit_in(x, nbits); IntType is the (promoted) type of the argument.  Where
\* the assertion does not hold the shift that computes imin is undefined, and
\* the first conjunct alone decides the result.
fit_in(xv, nbits) ==
    /\ wBits(xv) >= nbits
    /\ LET imin == wShl(wNot(wZero(Len(xv))), nbits - 1)
       IN  wSLe(xv, wNot(imin)) /\ wSLe(imin, xv)

\* E1 << E2 in the type of E1.  A count of at least the type's width is
\* undefined behaviour: an x86 build shifts by the count modulo the width, a
\* build that folds the constant or runs on ARM yields 0.
ShlHw(a, s, hw) ==
    IF s < wBits(a) THEN wShl(a, s)
    ELSE IF hw = "x86" THEN wShl(a, s % wBits(a))
    ELSE wZero(Len(a))

\* fx_align<ToType>(x, from_bits, to_bits), nTo the limbs of ToType
fx_align(xv, from_bits, to_bits, nTo) ==
    IF from_bits > to_bits
    THEN wSExt(wShrA(Promote(xv), from_bits - to_bits), nTo)
    ELSE wSExt(wShl(Promote(wSExt(xv, nTo)), to_bits - from_bits), nTo)

Failed(e) == [err |-> e, x |-> <<>>]

Built(xv) == [err |-> "none", x |-> xv]

\* Fract<I,F>::set(x2, F2), s = <<I, F>>, x2 of the source's IntType2
set(s, x2, F2, hw) ==
    LET n   == IntTypeOf(s)
        ip  == wShrA(Promote(x2), F2)
    IN  IF ~fit_in(ip, s[1]) THEN Failed("Overflow")
        ELSE LET xi   == wSExt(wShl(Promote(wSExt(ip, n)), s[2]), n)
                 one  == Promote(wNat(1, n))
                 mask == wSub(ShlHw(one, F2, hw), one)
                 cw   == IF Len(Promote(x2)) > Len(mask) THEN Len(Promote(x2)) ELSE Len(mask)
                 x2m  == wSExt(wAnd(wSExt(Promote(x2), cw), wSExt(mask, cw)), Len(x2))
             IN  Built(wOr(xi, fx_align(x2m, F2, s[2], n)))

\* the assertions that set() runs into, made by fit_in
set_assert(s, x2, F2) == fit_in_assert(wShrA(Promote(x2), F2), s[1])

\* Fract<I,F>::Fract(int i)
Fract_int(s, i) ==
    IF ~fit_in(i, s[1]) THEN Failed("Overflow")
    ELSE Built(wSExt(wShl(Promote(wSExt(i, IntTypeOf(s))), s[2]), IntTypeOf(s)))

\* A double is modelled by a dyadic rational f = <<m, e>>, the value m * 2^e
\* with m an int; products and quotients by powers of two are exact in a
\* double.  trunc(f * 2^k) on 16 limbs (rounding toward zero):
ScaleTrunc(f, k) ==
    LET M == wSExt(f[1], 16)
        t == f[2] + k
    IN  IF t >= 0 THEN wShl(M, t)
        ELSE IF wIsNeg(M) THEN wNeg(wShrL(wNeg(M), -t))
        ELSE wShrL(M, -t)

\* ::floor(f) on 16 limbs
FloorOf(f) ==
    LET M == wSExt(f[1], 16)
    IN  IF f[2] >= 0 THEN wShl(M, f[2]) ELSE wShrA(M, -f[2])

\* the conversion of a double with the integral value v to IntType.  A value
\* IntType cannot hold is undefined behaviour: an x86 build converts to a
\* 32 or 64-bit register, which holds INT_MIN when the value is out of its
\* range, and keeps the low bits; a saturating build (ARM) clamps instead.
DoubleToInt(v, n, hw) ==
    LET r == IF n < 4 THEN 4 ELSE n
    IN  IF wFitsS(v, n) THEN wSExt(v, n)
        ELSE IF wFitsS(v, r) THEN wSExt(v, n)
        ELSE IF hw = "x86" THEN wSExt(wMinS(r), n)
        ELSE wSExt(IF wIsNeg(v) THEN wMinS(r) ELSE wMaxS(r), n)

\* Fract<I,F>::Fract(double f) and Fract(float f)
Fract_double(s, f, hw) ==
    LET n  == IntTypeOf(s)
        xv == DoubleToInt(ScaleTrunc(f, s[2]), n, hw)
        fl == DoubleToInt(FloorOf(f), n, hw)
    IN  IF wShrA(Promote(xv), s[2]) # Promote(fl) THEN Failed("Overflow")
        ELSE Built(xv)

\* Fract<I,F>::Fract(const Fract<I2,F2>& f) and operator=(Fract<I2,F2>)
Fract_Fract(s, s2, x2, hw) == set(s, x2, s2[2], hw)

\* Fract::operator+ and operator+=
OpAdd(a, b) ==
    IF AddOverflow(a, b) THEN Failed("Overflow")
    ELSE Built(wSExt(wAdd(Promote(a), Promote(b)), Len(a)))

\* Fract::operator- and operator-=
OpSub(a, b) ==
    IF SubOverflow(a, b) THEN Failed("Overflow")
    ELSE Built(wSExt(wSub(Promote(a), Promote(b)), Len(a)))

\* abs(Fract): gen(::abs(x.x))
OpAbs(a) ==
    Built(wSExt(IF wIsNeg(a) THEN wNeg(Promote(a)) ELSE Promote(a), Len(a)))

\* Fract::floor()
floor(s, xv) == wSExt(wShrA(Promote(xv), s[2]), TruncIntTypeOf(s))

\* Fract::ceil()
ceil(s, xv) ==
    LET one == Promote(wNat(1, Len(xv)))
    IN  wSExt(wShrA(wAdd(Promote(xv), wSub(wShl(one, s[2]), one)), s[2]),
              TruncIntTypeOf(s))

\* the signed addition in ceil() overflows (undefined behaviour)
ceil_overflows(s, xv) ==
    LET one == Promote(wNat(1, Len(xv)))
    IN  wAddOvfS(Promote(xv), wSub(wShl(one, s[2]), one))

\* ------------------------------------------------------------------ state

VARIABLES
    pc,     \* "call" before a function is applied to its arguments, "done" after;
            \* "run" while a Fract object is operated on
    op,     \* the name of the function or operation applied last
    arg,    \* its arguments
    res,    \* what it returned
    err,    \* how it ended: "none", or the failure it signalled
    sh,     \* the shape <<I, F>> of the Fract object
    x,      \* the object's backing integer
    nops,   \* the number of operations applied to the object
    loc     \* the local variables of sqrt_fast while its loop runs

vars == <<pc, op, arg, res, err, sh, x, nops, loc>>

\* --------------------------------------- the integer utilities, one call each

\* operand patterns of n limbs: the boundaries of the signed and the unsigned
\* range, alternating bits, a half-word carry pattern and the operands of
\* test.cpp (TestAnyInt::mulhu, mulhu64, addscaled, addscaled64)
Samples(n) ==
    { wZero(n), wNat(1, n), wNat(2, n), wOnes(n), wMaxS(n), wMinS(n),
      wSub(wMaxS(n), wNat(1, n)), wAdd(wMinS(n), wNat(2, n)),
      [i \in 1..n |-> 85], [i \in 1..n |-> 170],
      [i \in 1..n |-> IF 2 * i = n THEN 192 ELSE IF 2 * i = n + 2 THEN 1 ELSE 0] }
    \cup (IF n = 1 THEN { <<245>>, <<38>>, <<124>> } ELSE {})
    \cup (IF n = 2 THEN { <<197, 188>>, <<3, 217>> } ELSE {})
    \cup (IF n = 4 THEN { <<254, 94, 40, 232>>, <<142, 215, 116, 132>> } ELSE {})
    \cup (IF n = 8 THEN { <<199, 113, 172, 181, 175, 152, 50, 154>>,
                          <<142, 227, 136, 229, 218, 235, 214, 30>>,
                          <<248, 255, 199, 47, 189, 98, 193, 27>> } ELSE {})

\* the limb counts of the 8, 16, 32 and 64-bit integer types
Widths == {1, 2, 4, 8}

\* the shifts MulHU<ULargest> is called with besides the default: counts in
\* [W, 2W) as LazyFract::operator* passes them
MulHUShifts == {65, 72, 96, 127}

IntArgs ==
    UNION { [f : {"AddOverflow", "SubOverflow"}, a : Samples(n), b : Samples(n),
             shift : {0}, sgn : {TRUE}] : n \in Widths }
    \cup UNION { [f : {"MulHU"}, a : Samples(n), b : Samples(n),
                  shift : {8 * n}, sgn : {FALSE}] : n \in Widths }
    \cup UNION { [f : {"ScaledAdd"}, a : Samples(n), b : Samples(n),
                  shift : {1, 2, 8 * n - 1}, sgn : BOOLEAN] : n \in Widths }
    \cup [f : {"MulHUShift"}, a : Samples(8), b : Samples(8),
          shift : MulHUShifts, sgn : {FALSE}]

NoShape == <<0, 0>>

InitInt ==
    /\ pc = "call"
    /\ arg \in IntArgs
    /\ op = "none"
    /\ res = <<>>
    /\ err = "none"
    /\ sh = NoShape
    /\ x = <<>>
    /\ nops = 0
    /\ loc = <<>>

CallAddOverflow ==
    /\ pc = "call"
    /\ arg.f = "AddOverflow"
    /\ res' = AddOverflow(arg.a, arg.b)
    /\ op' = arg.f
    /\ pc' = "done"
    /\ UNCHANGED <<arg, err, sh, x, nops, loc>>

CallSubOverflow ==
    /\ pc = "call"
    /\ arg.f = "SubOverflow"
    /\ res' = SubOverflow(arg.a, arg.b)
    /\ op' = arg.f
    /\ pc' = "done"
    /\ UNCHANGED <<arg, err, sh, x, nops, loc>>

CallMulHU ==
    /\ pc = "call"
    /\ arg.f \in {"MulHU", "MulHUShift"}
    /\ res' = MulHU(arg.a, arg.b, arg.shift)
    /\ op' = arg.f
    /\ pc' = "done"
    /\ UNCHANGED <<arg, err, sh, x, nops, loc>>

\* A signed overflow inside ScaledAdd<Largest> is undefined behaviour: the
\* build either wraps or traps (-ftrapv).
CallScaledAdd ==
    /\ pc = "call"
    /\ arg.f = "ScaledAdd"
    /\ res' = ScaledAdd(arg.a, arg.b, arg.shift, wBits(arg.a), arg.sgn)
    /\ IF Len(arg.a) = 8 /\ ScaledAddLargestOverflows(arg.a, arg.b, arg.shift, wBits(arg.a))
       THEN err' \in {"none", "Trap"}
       ELSE err' = "none"
    /\ op' = arg.f
    /\ pc' = "done"
    /\ UNCHANGED <<arg, sh, x, nops, loc>>

NextInt == CallAddOverflow \/ CallSubOverflow \/ CallMulHU \/ CallScaledAdd

SpecInt == InitInt /\ [][NextInt]_vars

\* ------------------------------------------------ inputs of the Fract model

\* the outcomes of undefined behaviour that depend on the build
Hw == {"x86", "other"}

HwFor(undefined) == IF undefined THEN Hw ELSE {"x86"}

\* the int arguments tried on shape s: small values, the two ends of the I-bit
\* range and their outer neighbours, the two ends of int
IntSamples(s) ==
    { wInt(v, 4) : v \in {0, 1, -1, 2, -2, 3, -3, 100, -100} }
    \cup (IF s[1] <= 31
          THEN { wInt(v, 4) : v \in { 2^(s[1] - 1) - 1, 2^(s[1] - 1),
                                      -(2^(s[1] - 1)), -(2^(s[1] - 1)) - 1 } }
          ELSE {})
    \cup { wMaxS(4), wMinS(4) }

\* the largest value of shape s whose mantissa an int holds, as <<m, e>>
MaxSample(s) ==
    LET k == IF s[1] + s[2] - 1 < 31 THEN s[1] + s[2] - 1 ELSE 31
    IN  <<wSub(wShl(wNat(1, 8), k), wNat(1, 8)), s[1] + s[2] - 1 - k - s[2]>>

\* the double arguments tried on shape s, each <<m, e>> for m * 2^e: 0, 1,
\* +-0.5, +-2.75, 100.5, +-2^-(F+1), the largest and the smallest value of
\* the shape, 2^(I-1) - 0.5, +-2^(I-1), +-2^(I-1) +- 0.5 and 2^67 ( > 1e20)
DoubleSamples(s) ==
    { <<wInt(p[1], 8), p[2]>> :
        p \in { <<0, 0>>, <<1, 0>>, <<1, -1>>, <<-1, -1>>, <<11, -2>>, <<-11, -2>>,
                <<201, -1>>, <<1, -(s[2] + 1)>>, <<-1, -(s[2] + 1)>>,
                <<1, s[1] - 1>>, <<-1, s[1] - 1>>, <<1, 67>> } }
    \cup { MaxSample(s) }
    \cup (IF s[1] <= 30
          THEN { <<wInt(v, 8), -1>> : v \in { 2^s[1] - 1, 2^s[1] + 1,
                                              -(2^s[1]) - 1, -(2^s[1]) + 1 } }
          ELSE {})

\* whether Fract(double f) converts a value that IntType cannot hold
DoubleUndefined(s, f) ==
    \/ ~wFitsS(ScaleTrunc(f, s[2]), IntTypeOf(s))
    \/ ~wFitsS(FloorOf(f), IntTypeOf(s))

\* whether set() shifts IntType(1) by at least its width
SetUndefined(s, F2) == F2 >= wBits(Promote(wNat(1, IntTypeOf(s))))

\* the shapes constructed: 8, 32 and 64-bit backing integers, with I + F
\* equal to and smaller than the backing width, I up to and beyond 32
Shapes ==
    { <<1, 7>>, <<2, 6>>, <<8, 0>>, <<2, 3>>,
      <<8, 8>>, <<4, 12>>, <<16, 16>>, <<20, 12>>, <<8, 24>>,
      <<32, 32>>, <<40, 8>>, <<8, 40>>, <<16, 48>>, <<40, 24>> }

\* the values of shape s that the constructors from int and from double build
ValuesOf ==
    [s \in Shapes |->
        { Fract_int(s, i).x : i \in { j \in IntSamples(s) : Fract_int(s, j).err = "none" } }
        \cup { Fract_double(s, f, "x86").x :
                 f \in { g \in DoubleSamples(s) : /\ ~DoubleUndefined(s, g)
                                                  /\ Fract_double(s, g, "x86").err = "none" } }]

\* ------------------------------------- the Fract constructors, one call each

CtorArgs ==
    UNION { [f : {"Fract_int"}, s : {s}, s2 : {NoShape}, v : IntSamples(s), e : {0}]
            : s \in Shapes }
    \cup UNION { { [f |-> "Fract_double", s |-> s, s2 |-> NoShape, v |-> g[1], e |-> g[2]]
                   : g \in DoubleSamples(s) } : s \in Shapes }
    \cup UNION { [f : {"Fract_Fract"}, s : {p[1]}, s2 : {p[2]}, v : ValuesOf[p[2]], e : {0}]
                 : p \in { q \in Shapes \X Shapes : q[1] # q[2] } }

InitCtor ==
    /\ pc = "call"
    /\ arg \in CtorArgs
    /\ op = "none"
    /\ res = <<>>
    /\ err = "none"
    /\ sh = arg.s
    /\ x = <<>>
    /\ nops = 0
    /\ loc = <<>>

\* the constructor ends with one of the outcomes ends; an object exists only
\* when it did not throw
Construct(r, ends) ==
    /\ err' \in ends
    /\ x' = IF err' = "none" THEN r.x ELSE <<>>
    /\ op' = arg.f
    /\ pc' = "done"
    /\ UNCHANGED <<arg, res, sh, nops, loc>>

\* Where the assertion of fit_in fails, a build with assertions aborts and a
\* build with NDEBUG goes on.
CallFractInt ==
    /\ pc = "call"
    /\ arg.f = "Fract_int"
    /\ LET r == Fract_int(arg.s, arg.v)
       IN  Construct(r, IF fit_in_assert(arg.v, arg.s[1]) THEN {r.err}
                        ELSE {r.err, "Abort"})

CallFractDouble ==
    /\ pc = "call"
    /\ arg.f = "Fract_double"
    /\ \E hw \in HwFor(DoubleUndefined(arg.s, <<arg.v, arg.e>>)) :
          Construct(Fract_double(arg.s, <<arg.v, arg.e>>, hw),
                    {Fract_double(arg.s, <<arg.v, arg.e>>, hw).err})

CallFractFract ==
    /\ pc = "call"
    /\ arg.f = "Fract_Fract"
    /\ \E hw \in HwFor(SetUndefined(arg.s, arg.s2[2])) :
          LET r == Fract_Fract(arg.s, arg.s2, arg.v, hw)
          IN  Construct(r, IF set_assert(arg.s, arg.v, arg.s2[2]) THEN {r.err}
                           ELSE {r.err, "Abort"})

NextCtor == CallFractInt \/ CallFractDouble \/ CallFractFract

SpecCtor == InitCtor /\ [][NextCtor]_vars

\* ------------------------------------------ one Fract object, operated upon

\* the number of operations applied to the object
MaxOps == 2

\* the shapes of the object
ObjShapes == { <<2, 6>>, <<2, 3>>, <<8, 8>>, <<4, 12>>, <<16, 16>>, <<32, 32>> }

ObjInts(s) == { wInt(v, 4) : v \in {0, 1, -1, 100} }

ObjDoubles(s) ==
    { <<wInt(1, 8), -1>>, <<wInt(-11, 8), -2>>, <<wInt(-1, 8), s[1] - 1>>,
      <<wInt(-1, 8), -s[2]>>, MaxSample(s),
      IF s[1] <= 30 THEN <<wInt(2^s[1] - 1, 8), -1>> ELSE <<wInt(1, 8), s[1] - 2>> }

\* the right operands of + and -
Operands ==
    [s \in ObjShapes |->
        { Fract_int(s, i).x : i \in { j \in ObjInts(s) : Fract_int(s, j).err = "none" } }
        \cup { Fract_double(s, f, "x86").x :
                 f \in { g \in ObjDoubles(s) : /\ ~DoubleUndefined(s, g)
                                               /\ Fract_double(s, g, "x86").err = "none" } }]

\* the values assigned from another shape: 0.5, -2.75 and the largest value
Sources ==
    [s \in ObjShapes |->
        { Fract_double(s, f, "x86").x :
            f \in { g \in { <<wInt(1, 8), -1>>, <<wInt(-11, 8), -2>>, MaxSample(s) } :
                        Fract_double(s, g, "x86").err = "none" } }]

\* Fract a;
Init ==
    /\ pc = "run"
    /\ sh \in ObjShapes
    /\ x = wZero(IntTypeOf(sh))
    /\ op = "Fract"
    /\ arg = <<>>
    /\ res = <<>>
    /\ err = "none"
    /\ nops = 0
    /\ loc = <<>>

\* the operation name, given a, ends with one of the outcomes ends; the
\* object changes only when it neither threw nor stopped the program
Operate(name, a, r, ends) ==
    /\ pc = "run"
    /\ nops < MaxOps
    /\ err' \in ends
    /\ x' = IF err' = "none" THEN r.x ELSE x
    /\ pc' = IF err' \in {"Abort", "Trap"} THEN "stopped" ELSE "run"
    /\ op' = name
    /\ arg' = a
    /\ nops' = nops + 1
    /\ UNCHANGED <<res, sh, loc>>

\* a = Fract<I,F>(i)
AssignInt ==
    /\ pc = "run"
    /\ \E i \in ObjInts(sh) :
        Operate("Fract_int", <<i>>, Fract_int(sh, i), {Fract_int(sh, i).err})

\* a = Fract<I,F>(f)
AssignDouble ==
    \E f \in ObjDoubles(sh) : \E hw \in HwFor(DoubleUndefined(sh, f)) :
        Operate("Fract_double", f, Fract_double(sh, f, hw), {Fract_double(sh, f, hw).err})

\* a = b, with b of another shape
AssignFract ==
    \E s2 \in ObjShapes \ {sh} : \E v \in Sources[s2] :
        Operate("Fract_Fract", <<s2, v>>, Fract_Fract(sh, s2, v, "x86"),
                {Fract_Fract(sh, s2, v, "x86").err})

\* a += b, a = a + b
Add ==
    \E b \in Operands[sh] : Operate("+", <<x, b>>, OpAdd(x, b), {OpAdd(x, b).err})

\* a -= b, a = a - b.  Where SubOverflow lets an overflowing int or int64_t
\* subtraction through, the subtraction is undefined: it wraps, or traps.
Sub ==
    \E b \in Operands[sh] :
        Operate("-", <<x, b>>, OpSub(x, b),
                IF OpSub(x, b).err = "none" /\ Len(x) >= 4 /\ wSubOvfS(x, b)
                THEN {"none", "Trap"} ELSE {OpSub(x, b).err})

\* a = abs(a).  ::abs of the most negative int or int64_t is undefined.
Abs ==
    /\ pc = "run"
    /\ Operate("abs", <<x>>, OpAbs(x),
            IF Len(x) >= 4 /\ x = wMinS(Len(x)) THEN {"none", "Trap"} ELSE {"none"})

Next == AssignInt \/ AssignDouble \/ AssignFract \/ Add \/ Sub \/ Abs

Spec == Init /\ [][Next]_vars

\* ------------------------------------------------- sqrt, one call each

\* the local variables of sqrt_fast(x) when its loop begins: val, g, bshft
\* and b, for xv the backing integer of x and c what clz returned for it
sqrt_fast_locals(xv, c) ==
    LET bshft == (Log2Ceil(xv, c) - 1) \div 2
    IN  [val |-> xv, g |-> wZero(Len(xv)), bshft |-> bshft,
         b |-> IF bshft >= 0 THEN wSExt(wShl(wNat(1, 4), bshft), Len(xv)) ELSE <<>>]

\* one iteration of the loop of sqrt_fast
sqrt_fast_iter(l) ==
    LET temp == wShl(wAdd(wAdd(l.g, l.g), l.b), l.bshft)
    IN  IF wSLe(temp, l.val)
        THEN [val |-> wSub(l.val, temp), g |-> wAdd(l.g, l.b),
              bshft |-> l.bshft - 1, b |-> wShrA(l.b, 1)]
        ELSE [val |-> l.val, g |-> l.g, bshft |-> l.bshft - 1, b |-> wShrA(l.b, 1)]

\* what clz may return: __builtin_clz of 0 is undefined, and yields the
\* width (lzcnt) or the width less one (bsr)
clz_results(a) ==
    IF a = wZero(Len(a)) THEN {wBits(a), wBits(a) - 1} ELSE {clz(a)}

\* the shape of the intermediate of sqrt(Fract<I,F>)
Twice(s) == <<2 * s[1], 2 * s[2]>>

SqrtShapes ==
    { <<1, 7>>, <<2, 6>>, <<8, 0>>, <<8, 8>>, <<4, 12>>, <<16, 16>>, <<20, 12>>, <<8, 24>> }

\* the shape of the result of sqrt_fast(Fract<I,F>)
Half(s) == <<s[1] \div 2, s[2] \div 2>>

\* the shapes sqrt_fast is called on; clz is not defined for int8_t
SqrtFastShapes ==
    { <<8, 8>>, <<4, 12>>, <<16, 16>>, <<8, 24>>, <<32, 32>>, <<16, 48>>, <<40, 24>> }

\* the arguments of sqrt and of sqrt_fast: the values of each shape, and
\* 2..99 in Q(8,24); s2 is the shape of the intermediate of sqrt and of the
\* result of sqrt_fast
\* a shape with an odd number of fractional bits, on a 32-bit backing integer
OddShape == <<9, 7>>

SqrtArgs ==
    UNION { [f : {"sqrt"}, s : {s}, s2 : {Twice(s)}, v : ValuesOf[s], e : {0}]
            : s \in SqrtShapes }
    \cup [f : {"sqrt"}, s : {<<8, 24>>}, s2 : {<<16, 48>>},
          v : { Fract_int(<<8, 24>>, wInt(i, 4)).x : i \in 2..99 }, e : {0}]
    \cup UNION { [f : {"sqrt_fast"}, s : {s}, s2 : {Half(s)}, v : ValuesOf[s], e : {0}]
                 : s \in SqrtFastShapes }
    \cup [f : {"sqrt_fast"}, s : {<<8, 24>>}, s2 : {<<4, 12>>},
          v : { Fract_int(<<8, 24>>, wInt(i, 4)).x : i \in 2..99 }, e : {0}]
    \cup [f : {"sqrt_fast"}, s : {OddShape}, s2 : {Half(OddShape)},
          v : { Fract_int(OddShape, wInt(i, 4)).x : i \in {1, 2, 4, 9, 100} }, e : {0}]

InitSqrt ==
    /\ pc = "call"
    /\ arg \in SqrtArgs
    /\ op = "none"
    /\ res = <<>>
    /\ err = "none"
    /\ sh = arg.s
    /\ x = arg.v
    /\ nops = 0
    /\ loc = <<>>

\* sqrt ends before the loop of sqrt_fast is entered
SqrtEnds(e) ==
    /\ err' = e
    /\ pc' = "done"
    /\ UNCHANGED <<res, loc>>

\* sqrt(Fract<I,F> x): Fract<I*2,F*2> x2(x); return sqrt_fast(x2); up to
\* the loop.  The comparison x < 0 in sqrt_fast converts 0 with
\* Fract<I*2,F*2>(int).  Where clz(0) returns the width, bshft is -1 and
\* the shifts of the loop are undefined.
CallSqrt ==
    /\ pc = "call"
    /\ arg.f = "sqrt"
    /\ LET x2   == Fract_Fract(arg.s2, arg.s, arg.v, "x86")
           zero == Fract_int(arg.s2, wZero(4))
       IN  IF ~set_assert(arg.s2, arg.v, arg.s[2])
           THEN \E e \in {x2.err, "Abort"} : SqrtEnds(e)
           ELSE IF x2.err # "none" THEN SqrtEnds(x2.err)
           ELSE IF zero.err # "none" THEN SqrtEnds(zero.err)
           ELSE IF wIsNeg(x2.x) THEN SqrtEnds("DomainError")
           ELSE \E c \in clz_results(x2.x) :
                    IF sqrt_fast_locals(x2.x, c).bshft < 0 THEN SqrtEnds("Undefined")
                    ELSE /\ loc' = sqrt_fast_locals(x2.x, c)
                         /\ pc' = "loop"
                         /\ UNCHANGED <<res, err>>
    /\ op' = arg.f
    /\ UNCHANGED <<arg, sh, x, nops>>

\* sqrt_fast(Fract<I,F> x) up to the loop; the comparison x < 0 converts 0
\* with Fract<I,F>(int)
CallSqrtFast ==
    /\ pc = "call"
    /\ arg.f = "sqrt_fast"
    /\ LET zero == Fract_int(arg.s, wZero(4))
       IN  IF ~fit_in_assert(wZero(4), arg.s[1])
           THEN \E e \in {zero.err, "Abort"} : SqrtEnds(e)
           ELSE IF zero.err # "none" THEN SqrtEnds(zero.err)
           ELSE IF wIsNeg(arg.v) THEN SqrtEnds("DomainError")
           ELSE \E c \in clz_results(arg.v) :
                    IF sqrt_fast_locals(arg.v, c).bshft < 0 THEN SqrtEnds("Undefined")
                    ELSE /\ loc' = sqrt_fast_locals(arg.v, c)
                         /\ pc' = "loop"
                         /\ UNCHANGED <<res, err>>
    /\ op' = arg.f
    /\ UNCHANGED <<arg, sh, x, nops>>

\* the shape of what sqrt (the argument's) and sqrt_fast (half of it) return
SqrtResultShape == IF arg.f = "sqrt" THEN arg.s ELSE arg.s2

\* one iteration of do { ... } while (bshft--), and the return of gen(g)
\* when the loop ends; nops counts the iterations
SqrtIterate ==
    /\ pc = "loop"
    /\ IF loc.bshft # 0
       THEN /\ loc' = sqrt_fast_iter(loc)
            /\ UNCHANGED <<pc, res>>
       ELSE /\ res' = wSExt(sqrt_fast_iter(loc).g, IntTypeOf(SqrtResultShape))
            /\ loc' = <<>>
            /\ pc' = "done"
    /\ nops' = nops + 1
    /\ UNCHANGED <<op, arg, err, sh, x>>

NextSqrt == CallSqrt \/ CallSqrtFast \/ SqrtIterate

SpecSqrt == InitSqrt /\ [][NextSqrt]_vars

\* ------------------------------------------------------------ properties

\* whether the signed word a lies in [-2^(k-1), 2^(k-1) - 1]
FitsBits(a, k) ==
    LET w == wSExt(a, 16)
        p == wShl(wNat(1, 16), k - 1)
    IN  wSLe(wNeg(p), w) /\ wSLt(w, p)

\* the integer part x >> F of the object
IntegerPart == wShrA(x, sh[2])

\* C1: after any sequence of successful operations the integer part x >> F
\* of the object lies in [-2^(I-1), 2^(I-1) - 1], also where I + F is smaller
\* than the backing width.
C1_IntegerPartFitsI ==
    pc = "run" => FitsBits(IntegerPart, sh[1])

\* the mathematical sum and difference of the operands of the last + or -,
\* on one limb more than the backing integer
TrueSum == wAdd(wSExt(arg[1], Len(x) + 1), wSExt(arg[2], Len(x) + 1))

TrueDifference == wSub(wSExt(arg[1], Len(x) + 1), wSExt(arg[2], Len(x) + 1))

\* C2: a + b raises Overflow exactly when the signed sum a.x + b.x is not
\* representable in the backing integer, and otherwise leaves the backing
\* integer equal to the mathematical sum.
C2_AddIsExactOrOverflows ==
    op = "+" =>
        /\ err \in {"none", "Overflow"}
        /\ err = "Overflow" <=> ~wFitsS(TrueSum, Len(x))
        /\ err = "none" => wSExt(x, Len(x) + 1) = TrueSum

\* an addition of two values of a 64-bit shape that raised Overflow, and so
\* left the object as it was
C2_AddOverflowed ==
    /\ op = "+"
    /\ err = "Overflow"
    /\ Len(x) = 8
    /\ x = arg[1]
    /\ ~wFitsS(TrueSum, Len(x))

\* C3: a - b raises Overflow exactly when the signed difference a.x - b.x is
\* not representable in the backing integer, and otherwise leaves the backing
\* integer equal to a.x - b.x.
C3_SubIsExactOrOverflows ==
    op = "-" =>
        /\ err \in {"none", "Overflow"}
        /\ err = "Overflow" <=> ~wFitsS(TrueDifference, Len(x))
        /\ err = "none" => wSExt(x, Len(x) + 1) = TrueDifference

\* C4: Fract<I,F>(int i) succeeds exactly when i lies in
\* [-2^(I-1), 2^(I-1) - 1], for every I up to the backing width, and then the
\* backing integer is i * 2^F; otherwise it raises Overflow.
C4_IntCtorIffFits ==
    (pc = "done" /\ op = "Fract_int") =>
        IF FitsBits(arg.v, arg.s[1])
        THEN err = "none" /\ wSExt(x, 16) = wShl(wSExt(arg.v, 16), arg.s[2])
        ELSE err = "Overflow"

\* C5: converting v of Q(I2,F2) to Q(I,F) raises Overflow exactly when
\* floor(v) does not fit in I bits, and otherwise yields floor(v * 2^F) / 2^F.
C5_ConversionFloors ==
    (pc = "done" /\ op = "Fract_Fract") =>
        LET v == wSExt(arg.v, 16)
        IN  IF FitsBits(wShrA(v, arg.s2[2]), arg.s[1])
            THEN /\ err = "none"
                 /\ wSExt(x, 16) = IF arg.s[2] >= arg.s2[2]
                                   THEN wShl(v, arg.s[2] - arg.s2[2])
                                   ELSE wShrA(v, arg.s2[2] - arg.s[2])
            ELSE err = "Overflow"

\* C6: Fract<I,F>(double f) raises Overflow exactly when floor(f) is not in
\* [-2^(I-1), 2^(I-1) - 1], and otherwise stores trunc(f * 2^F).
C6_DoubleCtorIffInRange ==
    (pc = "done" /\ op = "Fract_double") =>
        IF FitsBits(FloorOf(<<arg.v, arg.e>>), arg.s[1])
        THEN err = "none" /\ wSExt(x, 16) = ScaleTrunc(<<arg.v, arg.e>>, arg.s[2])
        ELSE err = "Overflow"

\* C7: floor() is the largest integer <= v and ceil() the smallest integer
\* >= v: floor * 2^F <= x <= ceil * 2^F, and ceil - floor is 0 when the F
\* fraction bits of x are zero and 1 otherwise, for every value of the object.
C7_FloorCeilBracket ==
    pc = "run" =>
        LET v  == wSExt(x, 16)
            fl == wSExt(floor(sh, x), 16)
            cl == wSExt(ceil(sh, x), 16)
        IN  /\ ~ceil_overflows(sh, x)
            /\ wSLe(wShl(fl, sh[2]), v)
            /\ wSLe(v, wShl(cl, sh[2]))
            /\ wSub(cl, fl) = IF wShl(wShrA(v, sh[2]), sh[2]) = v
                              THEN wZero(16) ELSE wNat(1, 16)

\* floor((a * b) / 2^W): the upper W bits of the 2W-bit product
HighHalf(a, b) == SubSeq(wMulFull(a, b), Len(a) + 1, 2 * Len(a))

\* floor((a + b) / 2^s) on the unbounded sum, which W + 8 bits hold
TrueScaledSum(a, b, s, sgn) ==
    LET m == Len(a) + 1
    IN  wExt(wShr(wAdd(wExt(a, m, sgn), wExt(b, m, sgn)), s, sgn), Len(a), sgn)

\* C8: MulHU(a, b, W) is floor((a*b) / 2^W) on the true 2W-bit product, for
\* every pair of unsigned operands of width W in {8, 16, 32, 64}.
C8_MulHUIsHighHalf ==
    (pc = "done" /\ op = "MulHU") => res = HighHalf(arg.a, arg.b)

\* C9: ScaledAdd(a, b, s, W) is floor((a+b) / 2^s) on the unbounded sum, for
\* signed and unsigned operands of every width and every 1 <= s < W.
C9_ScaledAddIsExact ==
    (pc = "done" /\ op = "ScaledAdd") =>
        /\ err = "none"
        /\ res = TrueScaledSum(arg.a, arg.b, arg.shift, arg.sgn)

\* C10: for every v >= 0 of Q(I,F) with 2 * (I + F) <= 64, r = sqrt(v)
\* satisfies r^2 <= v < (r + ulp)^2: on backing integers,
\* r.x^2 <= v.x * 2^F < (r.x + 1)^2.
C10_SqrtIsBitExact ==
    (pc = "done" /\ op = "sqrt" /\ ~wIsNeg(arg.v)) =>
        /\ err = "none"
        /\ LET r == wSExt(res, 16)
               v == wShl(wSExt(arg.v, 16), arg.s[2])
           IN  /\ wSLe(wMul(r, r), v)
               /\ wSLt(v, wMul(wAdd(r, wNat(1, 16)), wAdd(r, wNat(1, 16))))

\* C11: sqrt(x) and sqrt_fast(x) raise a Domain error exactly when x < 0,
\* and for x >= 0 raise no error at all.
C11_SqrtDomainIffNegative ==
    (pc = "done" /\ op \in {"sqrt", "sqrt_fast"}) =>
        IF wIsNeg(arg.v) THEN err = "DomainError" ELSE err = "none"

\* the value of bshft that sqrt_fast starts from on the backing integer v
\* when Log2Ceil is the bit length: (Log2Ceil(v) - 1) >> 1
FirstShift(v) == (wBitLen(v, Len(v)) - 1) \div 2

\* C12: on a non-negative input sqrt_fast raises nothing, enters its loop
\* with bshft >= 0, keeps every shift count within the operand width, runs
\* the loop exactly bshft + 1 times, and returns 0 for the input 0.
C12_SqrtFastLoopIsBounded ==
    (op = "sqrt_fast" /\ ~wIsNeg(arg.v)) =>
        /\ err = "none"
        /\ pc = "loop" => /\ loc.bshft >= 0
                          /\ loc.bshft < wBits(loc.val)
                          /\ nops + loc.bshft = FirstShift(arg.v)
        /\ pc = "done" => /\ nops = FirstShift(arg.v) + 1
                          /\ arg.v = wZero(Len(arg.v)) => res = wZero(Len(res))

\* ------------------------------ reciprocal (reciprocal.h, lazyfract.h)

\* the count a shift E1 >> E2 executes.  A count of at least the width of E1
\* is undefined behaviour: an x86 build shifts by the count modulo the
\* width, another build shifts every bit out.
ShrCount(s, width, hw) ==
    IF s < width THEN s
    ELSE IF hw = "x86" THEN s % width
    ELSE width

\* reciprocal(Fract f) with FRACT_AVOID_DIVISION, and the constructor
\* LazyReciprocal(Fract<I,F> f): input(f.x), input_shift(F)
reciprocal(s, xv) == [input |-> xv, input_shift |-> s[2]]

\* LazyReciprocal::evaluate<prec>() up to the 3-bit estimation, c what
\* clz(input) returned.  stage is "ret" when evaluate returned, else the PREC
\* of the nr_step that comes next; ovf tells whether a signed operation
\* overflowed (the model lets it wrap).
evaluate_begin(r, prec, c, hw) ==
    LET n      == Len(r.input)
        NBITS  == 8 * n
        rshift == NBITS + (NBITS - c) - r.input_shift - 1
        input  == ShlHw(r.input, c, hw)
        seed   == wSub(wXor(wNot(wZero(n)), wShl(wNat(1, n), NBITS - 1)), input)
        ovf    == wSubOvfS(wXor(wNot(wZero(n)), wShl(wNat(1, n), NBITS - 1)), input)
    IN  IF wShl(input, 1) = wZero(n)
        THEN [input |-> input, result |-> input, curprec |-> 0, stage |-> "ret",
              highestbit |-> 0, shift |-> rshift - 1, ovf |-> FALSE, round |-> 0]
        ELSE [input |-> input, result |-> seed, curprec |-> 3,
              stage |-> IF prec <= 3 THEN "ret" ELSE "6",
              highestbit |-> 0, shift |-> rshift, ovf |-> ovf, round |-> 0]

\* the PREC of the unrolled nr_step calls, and the one that follows each
NrPrec == [t \in {"6", "12", "24", "48", "96", "192"} |->
            CASE t = "6" -> 6 [] t = "12" -> 12 [] t = "24" -> 24
              [] t = "48" -> 48 [] t = "96" -> 96 [] t = "192" -> 192]

NrNext == [t \in {"6", "12", "24", "48", "96", "192"} |->
            CASE t = "6" -> "12" [] t = "12" -> "24" [] t = "24" -> "48"
              [] t = "48" -> "96" [] t = "96" -> "192" [] t = "192" -> "final"]

\* nr_step<PREC>(result, input, curprec), then
\*   if (curprec >= prec) return result - (MulHU(result, input) << 1);
nr_step(l, prec) ==
    LET n       == Len(l.input)
        NBITS   == 8 * n
        PREC    == NrPrec[l.stage]
        applies == (PREC \div 2) < NBITS
        t       == MulHU(l.result, l.input, NBITS)
        result  == IF applies THEN wShl(MulHU(l.result, wNeg(t), NBITS), 1)
                   ELSE l.result
        curprec == IF applies THEN (IF PREC > NBITS THEN NBITS - 2 ELSE PREC)
                   ELSE l.curprec
        last    == wShl(MulHU(result, l.input, NBITS), 1)
    IN  IF curprec >= prec
        THEN [l EXCEPT !.result = wSub(result, last), !.curprec = curprec,
                       !.stage = "ret",
                       !.ovf = l.ovf \/ wSubOvfS(result, last)
                               \/ (applies /\ t = wMinS(n))]
        ELSE [l EXCEPT !.result = result, !.curprec = curprec,
                       !.stage = NrNext[l.stage],
                       !.ovf = l.ovf \/ (applies /\ t = wMinS(n))]

\* sharpen without curprec--
sharpen_keeps_precision(l) ==
    LET n == Len(l.input)
        r == wShl(l.result, 1)
    IN  [l EXCEPT !.result = wSub(r, wNat(3, n)),
                  !.highestbit = 1, !.shift = l.shift + 1, !.stage = "round",
                  !.round = 1,
                  !.ovf = l.ovf \/ wSubOvfS(r, wNat(3, n))]

\* evaluate after the unrolled loop:
\*   result <<= 1; curprec--; result_highestbit = 1; result_shift += 1;
\*   result -= 3;
sharpen(l) ==
    LET n == Len(l.input)
        r == wShl(l.result, 1)
    IN  [l EXCEPT !.result = wSub(r, wNat(3, n)), !.curprec = l.curprec - 1,
                  !.highestbit = 1, !.shift = l.shift + 1, !.stage = "round",
                  !.round = 1,
                  !.ovf = l.ovf \/ wSubOvfS(r, wNat(3, n))]

\* one of the three closing statements of evaluate:
\*   result -= MulHU(result, input) + input; curprec++;
\*   if (curprec >= prec) return result;
correct(l, prec) ==
    LET n    == Len(l.input)
        t    == MulHU(l.result, l.input, 8 * n)
        step == wAdd(t, l.input)
    IN  [l EXCEPT !.result = wSub(l.result, step), !.curprec = l.curprec + 1,
                  !.round = l.round + 1,
                  !.stage = IF l.curprec + 1 >= prec \/ l.round = 3
                            THEN "ret" ELSE "round",
                  !.ovf = l.ovf \/ wAddOvfS(t, l.input) \/ wSubOvfS(l.result, step)]

\* the assertion of each closing statement
correct_assert(l) == l.curprec + 1 = 8 * Len(l.input) - 3 + l.round

\* LazyFract::operator*(LazyFract a, Fract<I,F> b) once evaluate has
\* returned inv, shift and highestbit:
\*   if (!highestbit) result = MulHU(inv, b.x) >> shift;
\*   else result = ScaledAdd<I+F>(MulHU(inv, b.x), b.x, shift);
\* The shift counts are those of the operand types: IntType for the first
\* form; in ScaledAdd IntType where I+F < bitsof(IntType), DIntType where
\* it has one, and shift-1 on Largest.
operator_mul(l, s, bx, hw) ==
    LET n     == Len(bx)
        NBITS == 8 * n
        hi    == MulHU(l.result, bx, NBITS)
    IN  IF l.highestbit = 0
        THEN wShrA(Promote(hi), ShrCount(l.shift, NBITS, hw))
        ELSE IF n = 8 /\ s[1] + s[2] >= NBITS
             THEN ScaledAdd(hi, bx, 1 + ShrCount(l.shift - 1, NBITS, hw),
                            s[1] + s[2], TRUE)
        ELSE IF n = 8 \/ s[1] + s[2] < NBITS
             THEN ScaledAdd(hi, bx, ShrCount(l.shift, NBITS, hw), s[1] + s[2], TRUE)
        ELSE ScaledAdd(hi, bx, ShrCount(l.shift, 2 * NBITS, hw), s[1] + s[2], TRUE)

\* whether a shift count of operator* is negative or at least the width
operator_mul_undefined(l, s, bx) ==
    LET NBITS == 8 * Len(bx)
    IN  IF l.highestbit = 0 THEN l.shift < 0 \/ l.shift >= NBITS
        ELSE IF Len(bx) = 8 /\ s[1] + s[2] >= NBITS
             THEN l.shift - 1 < 0 \/ l.shift - 1 >= NBITS
        ELSE IF Len(bx) = 8 \/ s[1] + s[2] < NBITS
             THEN l.shift < 0 \/ l.shift >= NBITS
        ELSE l.shift < 0 \/ l.shift >= 2 * NBITS

\* whether a signed sum or difference of operator* overflows
operator_mul_overflows(l, s, bx) ==
    LET hi == MulHU(l.result, bx, 8 * Len(bx))
    IN  /\ l.highestbit = 1
        /\ IF Len(bx) = 8 THEN ScaledAddLargestOverflows(hi, bx, l.shift, s[1] + s[2])
           ELSE s[1] + s[2] < 8 * Len(bx) /\ wAddOvfS(hi, bx)

\* the shapes of the inverse test, and the integers it divides
RecipShapes == { <<8, 8>>, <<16, 16>>, <<20, 44>>, <<32, 32>> }

RecipInts == { 0, 1, 2, 3, 7, 14, 35, 47, 100, 141, 6544, -1, -3, -7 }

\* the precisions evaluate<prec>() is instantiated with on a carrier of
\* n limbs: those around the exits of the unrolled loop, and the width
EvalPrecs(n) ==
    IF n = 4 THEN {1, 3, 4, 6, 7, 9, 12, 13, 16, 24, 25, 30, 31, 32}
    ELSE {3, 6, 12, 24, 40, 48, 49, 62, 63, 64}

\* positive backing integers of n limbs whose reciprocal is evaluated:
\* powers of two and their neighbours, small odd numbers, bit patterns
\* near 1/sqrt(2) and near 1 once normalised
EvalInputs(n) ==
    { wNat(v, n) : v \in {1, 2, 3, 5, 7, 10, 47, 100, 255, 257, 6544, 65535, 65536,
                          65537, 46341, 92681, 1518500249, 2147483647, 1073741825} }
    \cup { wMaxS(n), wAdd(wShrL(wMinS(n), 1), wNat(1, n)),
           [i \in 1..n |-> 85], [i \in 1..n |-> IF i = n THEN 90 ELSE 130] }

\* reciprocal(F(b)) * F(a): v is the backing integer of F(b), a that of F(a);
\* and LazyReciprocal<IntType>(F::gen(v)).evaluate<e>() on its own
RecipArgs ==
    UNION { [f : {"reciprocal"}, s : {s}, s2 : {s},
             v : { Fract_int(s, wInt(i, 4)).x :
                     i \in { j \in RecipInts : Fract_int(s, wInt(j, 4)).err = "none" } },
             a : { Fract_int(s, wInt(i, 4)).x :
                     i \in { j \in RecipInts : Fract_int(s, wInt(j, 4)).err = "none" } },
             e : {0}]
            : s \in RecipShapes }
    \cup UNION { [f : {"evaluate"}, s : {s}, s2 : {s}, v : EvalInputs(IntTypeOf(s)),
                  a : {<<>>}, e : EvalPrecs(IntTypeOf(s))]
                 : s \in {<<16, 16>>, <<32, 32>>} }

\* the template argument of evaluate: I + F of the operand in operator*
EvalPrec == IF arg.f = "evaluate" THEN arg.e ELSE arg.s[1] + arg.s[2]

InitRecip ==
    /\ pc = "call"
    /\ arg \in RecipArgs
    /\ op = "none"
    /\ res = <<>>
    /\ err = "none"
    /\ sh = arg.s
    /\ x = arg.v
    /\ nops = 0
    /\ loc = <<>>

\* reciprocal(F(b)) * F(a) up to the first nr_step of evaluate<I+F>();
\* clz(input) is the first statement of evaluate
CallReciprocal ==
    /\ pc = "call"
    /\ arg.f \in {"reciprocal", "evaluate"}
    /\ \E c \in clz_results(reciprocal(arg.s, arg.v).input) :
       \E hw \in HwFor(c >= wBits(arg.v)) :
            loc' = evaluate_begin(reciprocal(arg.s, arg.v), EvalPrec, c, hw)
    /\ pc' = "eval"
    /\ op' = arg.f
    /\ nops' = nops + 1
    /\ UNCHANGED <<arg, res, err, sh, x>>

\* the next nr_step of evaluate
NrStep ==
    /\ pc = "eval"
    /\ loc.stage \in DOMAIN NrPrec
    /\ loc' = nr_step(loc, EvalPrec)
    /\ nops' = nops + 1
    /\ UNCHANGED <<pc, op, arg, res, err, sh, x>>

\* assert(result < 0) and the statements up to result -= 3
Sharpen ==
    /\ pc = "eval"
    /\ loc.stage = "final"
    /\ IF wIsNeg(loc.result)
       THEN /\ loc' = sharpen(loc)
            /\ UNCHANGED <<pc, err>>
       ELSE \/ /\ loc' = sharpen(loc)
               /\ UNCHANGED <<pc, err>>
            \/ /\ err' = "Abort"
               /\ pc' = "done"
               /\ UNCHANGED loc
    /\ nops' = nops + 1
    /\ UNCHANGED <<op, arg, res, sh, x>>

\* one closing statement of evaluate, with its assertion
Correct ==
    /\ pc = "eval"
    /\ loc.stage = "round"
    /\ IF correct_assert(loc)
       THEN /\ loc' = correct(loc, EvalPrec)
            /\ UNCHANGED <<pc, err>>
       ELSE \/ /\ loc' = correct(loc, EvalPrec)
               /\ UNCHANGED <<pc, err>>
            \/ /\ err' = "Abort"
               /\ pc' = "done"
               /\ UNCHANGED loc
    /\ nops' = nops + 1
    /\ UNCHANGED <<op, arg, res, sh, x>>

\* operator* combines what evaluate returned with the operand
Multiply ==
    /\ pc = "eval"
    /\ arg.f = "reciprocal"
    /\ loc.stage = "ret"
    /\ \E hw \in HwFor(operator_mul_undefined(loc, arg.s, arg.a)) :
            res' = wSExt(operator_mul(loc, arg.s, arg.a, hw), Len(arg.a))
    /\ err' \in (IF loc.ovf \/ operator_mul_overflows(loc, arg.s, arg.a)
                 THEN {"none", "Trap"} ELSE {"none"})
    /\ pc' = "done"
    /\ UNCHANGED <<op, arg, sh, x, nops, loc>>

NextRecip == CallReciprocal \/ NrStep \/ Sharpen \/ Correct \/ Multiply

SpecRecip == InitRecip /\ [][NextRecip]_vars

\* q is the quotient of A * 2^F by B rounded toward zero, the backing
\* integer that Fract<I,F>(double) builds from the real quotient: with
\* r = A * 2^F - q * B, |r| < |B| and r is zero or has the sign of A * 2^F
IsQuotient(q, A, B, F) ==
    LET N    == wShl(wSExt(A, 24), F)
        BB   == wSExt(B, 24)
        r    == wSub(N, wMul(wSExt(q, 24), BB))
        absr == IF wIsNeg(r) THEN wNeg(r) ELSE r
        absB == IF wIsNeg(BB) THEN wNeg(BB) ELSE BB
    IN  /\ wULt(absr, absB)
        /\ r = wZero(24) \/ wIsNeg(r) = wIsNeg(N)

\* C13: for integers a and b # 0 representable in Q(I,F), the product
\* reciprocal(Q(b)) * Q(a) raises nothing and its backing integer is that
\* of Q(a/b), in Q(8,8), Q(16,16), Q(20,44) and Q(32,32).
C13_ReciprocalTimesIsQuotient ==
    (pc = "done" /\ op = "reciprocal" /\ arg.v # wZero(Len(arg.v))) =>
        /\ err = "none"
        /\ IsQuotient(res, arg.a, arg.v, arg.s[2])

\* C14: the reciprocal of zero ends in a Domain error: it never gets as far
\* as evaluating clz(0), and never yields a value.
C14_ReciprocalOfZeroIsDomainError ==
    (op = "reciprocal" /\ arg.v = wZero(Len(arg.v))) =>
        (pc = "done" /\ err = "DomainError")

\* ------------------------------------------ stringify (stringify.h)

\* A string is a sequence of one-character strings.
Digits == <<"0", "1", "2", "3", "4", "5", "6", "7", "8", "9">>

\* c - '0' for a decimal digit c
DigitOf(c) == (CHOOSE d \in 1..10 : Digits[d] = c) - 1

IsDigit(c) == \E d \in 1..10 : Digits[d] = c

\* s[i] with i counted from 0; s[s.length()] is the terminating NUL
CharAt(s, i) == IF i < Len(s) THEN s[i + 1] ELSE "NUL"

\* Pow10Funcs<int32_t>::pow10_inv_table as rows <<mantissa, shift>>.  The
\* array has (MAX_LOG10+1)*2 = 20 elements and 18 initialisers: the last
\* row is zero-initialised.
pow10_inv_table32 ==
    << <<<<255, 255, 255, 255>>, 0>>,
       <<<<204, 204, 204, 204>>, 3>>,
       <<<<61, 10, 215, 163>>, 6>>,
       <<<<151, 110, 18, 131>>, 9>>,
       <<<<88, 23, 183, 209>>, 13>>,
       <<<<71, 172, 197, 167>>, 16>>,
       <<<<5, 189, 55, 134>>, 19>>,
       <<<<213, 148, 191, 214>>, 23>>,
       <<<<17, 119, 204, 171>>, 26>>,
       <<<<0, 0, 0, 0>>, 0>> >>

\* Pow10Funcs<int64_t>::pow10_inv_table as rows <<mantissa, shift>>
pow10_inv_table64 ==
    << <<<<255, 255, 255, 255, 255, 255, 255, 255>>, 0>>,
       <<<<204, 204, 204, 204, 204, 204, 204, 204>>, 3>>,
       <<<<10, 215, 163, 112, 61, 10, 215, 163>>, 6>>,
       <<<<59, 223, 79, 141, 151, 110, 18, 131>>, 9>>,
       <<<<43, 101, 25, 226, 88, 23, 183, 209>>, 13>>,
       <<<<35, 132, 71, 27, 71, 172, 197, 167>>, 16>>,
       <<<<181, 105, 108, 175, 5, 189, 55, 134>>, 19>>,
       <<<<188, 66, 122, 229, 213, 148, 191, 214>>, 23>>,
       <<<<252, 206, 97, 132, 17, 119, 204, 171>>, 26>>,
       <<<<151, 165, 180, 54, 65, 95, 112, 137>>, 29>>,
       <<<<190, 213, 237, 189, 206, 254, 230, 219>>, 33>>,
       <<<<254, 170, 36, 203, 11, 255, 235, 175>>, 36>>,
       <<<<203, 136, 80, 111, 9, 204, 188, 140>>, 39>>,
       <<<<19, 14, 180, 75, 66, 19, 46, 225>>, 43>>,
       <<<<15, 216, 92, 9, 53, 220, 36, 180>>, 46>>,
       <<<<217, 172, 176, 58, 247, 124, 29, 144>>, 49>>,
       <<<<91, 225, 77, 196, 190, 148, 149, 230>>, 53>>,
       <<<<73, 180, 164, 54, 50, 170, 119, 184>>, 56>>,
       <<<<7, 93, 29, 146, 142, 238, 146, 147>>, 59>> >>

\* Pow10Funcs<IntType>::pow10_inv_table for an IntType of n limbs
pow10_inv_table(n) == IF n = 4 THEN pow10_inv_table32 ELSE pow10_inv_table64

\* countof(Pow10Funcs<IntType>::pow10_inv_table)
countof_inv(n) == 2 * Len(pow10_inv_table(n))

\* Pow10Funcs<IntType>::MAX_LOG10
MAX_LOG10(n) == IF n = 4 THEN 9 ELSE 18

\* Pow10Funcs<int64_t>::log10_table; Pow10Funcs<int32_t>::log10_table is its
\* first 32 elements
log10_table ==
    << 0, 0, 0, 0, 1, 1, 1, 2, 2, 2, 3, 3, 3, 3, 4, 4, 4, 5, 5, 5, 6, 6, 6, 6,
       7, 7, 7, 8, 8, 8, 9, 9, 9, 9, 10, 10, 10, 11, 11, 11, 12, 12, 12, 12,
       13, 13, 13, 14, 14, 14, 15, 15, 15, 15, 16, 16, 16, 17, 17, 17, 18, 18,
       18, 18 >>

\* Pow10BaseFuncs::log10_pow2(exp), 0 <= exp < countof(log10_table)
log10_pow2(exp) == log10_table[exp + 1]

\* the shift counts of div_pow10(num, exp, F) after value >>= 1
div_pow10_shift(n, num, exp) ==
    8 * n + pow10_inv_table(n)[exp + 1][2] - limbLen(num) - 1

\* whether div_pow10(num, exp, F) shifts by a count that is undefined: the
\* int 1 by 32 or more, or value by the width of UIntType
div_pow10_undefined(n, num, exp, F) ==
    LET d == div_pow10_shift(n, num, exp) - F
    IN  d > 0 /\ d <= 8 * n /\ (d - 1 >= 32 \/ d = 8 * n)

\* Pow10BaseFuncs::div_pow10(num, exp, F) for an IntType of n limbs, num > 0
\* and 0 < exp < countof(pow10_inv_table)/2.  Log2Ceil(num) is the bit
\* length of num; 1 << (value_shift-F-1) is an int converted to UIntType.
div_pow10(n, num, exp, F, hw) ==
    LET intbits     == limbLen(num)
        row         == pow10_inv_table(n)[exp + 1]
        value       == wShrL(wMul(wShrL(row[1], intbits), wNat(num, n)), 1)
        value_shift == div_pow10_shift(n, num, exp)
        d           == value_shift - F
        half        == wSExt(ShlHw(wNat(1, 4), d - 1, hw), n)
    IN  IF value_shift > F
        THEN IF d > 8 * n THEN wZero(n)
             ELSE wShrL(wAdd(value, half), ShrCount(d, 8 * n, hw))
        ELSE wShl(value, F - value_shift)

\* value / 10 and value % 10 of an unsigned word, limb by limb from the top
RECURSIVE wDivMod10(_, _, _, _)
wDivMod10(a, i, rem, acc) ==
    IF i = 0 THEN <<acc, rem>>
    ELSE wDivMod10(a, i - 1, (rem * 256 + a[i]) % 10,
                   <<(rem * 256 + a[i]) \div 10>> \o acc)

\* the loop of AnyInt::ToString(val, 10) for an unsigned val: the digits of
\* val are stored from the end of a buffer of bitsof(IntType) characters
RECURSIVE ToStringIter(_, _, _)
ToStringIter(val, i, buf) ==
    IF val = wZero(Len(val)) \/ i = 0 THEN buf
    ELSE ToStringIter(wDivMod10(val, Len(val), 0, <<>>)[1], i - 1,
                      <<Digits[wDivMod10(val, Len(val), 0, <<>>)[2] + 1]>> \o buf)

\* AnyInt::ToString(val) in base 10
AnyInt_ToString(val) ==
    IF val = wZero(Len(val)) THEN <<"0">>
    ELSE ToStringIter(val, wBits(val) - 2, <<>>)

\* detail::fromString(s, F, ok) up to the first loop: whitespace is skipped
\* and a '-' noted.  ok is "unset" while *ok has not been written.
parse_begin(s, n) ==
    LET spaces == CHOOSE k \in 0..Len(s) :
                      /\ \A j \in 0..(k - 1) : CharAt(s, j) = " "
                      /\ CharAt(s, k) # " "
        negate == CharAt(s, spaces) = "-"
    IN  [str |-> s, i |-> IF negate THEN spaces + 1 ELSE spaces,
         xi |-> wZero(n), xf |-> wZero(n), fi |-> 0, negate |-> negate,
         ok |-> "unset", ovf |-> FALSE]

\* xi *= 10; xi += s[i] - '0';
parse_digit(xi, c) == wAdd(wMul(xi, wNat(10, Len(xi))), wNat(DigitOf(c), Len(xi)))

\* whether xi *= 10; xi += digit overflows the signed IntType
parse_digit_overflows(xi, c) ==
    wSExt(parse_digit(xi, c), Len(xi) + 1)
        # wAdd(wMul(wSExt(xi, Len(xi) + 1), wNat(10, Len(xi) + 1)),
               wNat(DigitOf(c), Len(xi) + 1))

\* the closing expression of detail::fromString:
\*   (xi << F) | ((xf + (IntType(1) << (xfshift-1))) >> xfshift), negated
\*   when the string began with '-'
parse_result(l, F, hw) ==
    LET n       == Len(l.xi)
        xfshift == 8 * n - 1 - F
        half    == IF xfshift >= 1 THEN wShl(wNat(1, n), xfshift - 1)
                   ELSE ShlHw(wNat(1, n), 8 * n + xfshift - 1, hw)
        result  == wOr(wShl(l.xi, F), wShrA(wAdd(l.xf, half), xfshift))
    IN  IF l.negate THEN wNeg(result) ELSE result

\* whether the closing expression overflows the signed IntType
parse_result_overflows(l, F) ==
    LET n       == Len(l.xi)
        xfshift == 8 * n - 1 - F
    IN  \/ xfshift >= 1 /\ wAddOvfS(l.xf, wShl(wNat(1, n), xfshift - 1))
        \/ l.negate /\ parse_result(l, F, "x86") = wMinS(n)

\* detail::toString(value, F, prec, zeropad): the precision it prints with
effective_prec(n, F, prec) ==
    IF prec = -1 THEN log10_pow2(F)
    ELSE IF prec >= MAX_LOG10(n) THEN MAX_LOG10(n) - 1
    ELSE prec

\* detail::toString up to its loop: the sign, the rounding addend and the
\* integer part
format_begin(value, F, prec, hw) ==
    LET n      == Len(value)
        p      == effective_prec(n, F, prec)
        uvalue == wAdd(IF wIsNeg(value) THEN wNeg(value) ELSE value,
                       div_pow10(n, 5, p + 1, F, hw))
    IN  [uvalue |-> uvalue, prec |-> p, k |-> 0,
         integ |-> (IF wIsNeg(value) THEN <<"-">> ELSE <<>>)
                   \o AnyInt_ToString(wShrL(uvalue, F)) \o <<".">>,
         frac |-> <<>>]

\* uvalue &= (UIntType(1) << F) - 1
format_mask(l, F) ==
    wAnd(l.uvalue, wSub(wShl(wNat(1, Len(l.uvalue)), F), wNat(1, Len(l.uvalue))))

\* whether the loop of detail::toString runs its body to the end once more
format_continues(l, F, zeropad) ==
    /\ l.k < l.prec
    /\ zeropad \/ format_mask(l, F) # wZero(Len(l.uvalue))

\* uvalue *= 10; frac += '0' + (uvalue >> F);
format_digit(l, F) ==
    LET uvalue == wMul(format_mask(l, F), wNat(10, Len(l.uvalue)))
    IN  [l EXCEPT !.uvalue = uvalue, !.k = l.k + 1,
                  !.frac = l.frac \o <<Digits[wToInt(wZExt(wShrL(uvalue, F), 4)) + 1]>>]

\* frac without its trailing zeros
RECURSIVE strip_zeros(_)
strip_zeros(frac) ==
    IF Len(frac) > 0 /\ frac[Len(frac)] = "0"
    THEN strip_zeros(SubSeq(frac, 1, Len(frac) - 1))
    ELSE frac

\* the statements of detail::toString after its loop
format_end(l, zeropad) ==
    LET frac == IF zeropad THEN l.frac ELSE strip_zeros(l.frac)
    IN  l.integ \o (IF Len(frac) = 0 THEN <<"0">> ELSE frac)

\* Abs(a.x - b.x), the operand of Log2Ceil in Fract::error
error_diff(a, b) ==
    IF wIsNeg(wSub(a, b)) THEN wNeg(wSub(a, b)) ELSE wSub(a, b)

\* Fract::error(a, b): Log2Ceil(Abs(a.x - b.x)), c what clz returned
error(a, b, c) == Log2Ceil(error_diff(a, b), c)

\* the strings that are parsed: decimal numbers, among them those of the
\* weirdparse test, and strings with a character that is neither a digit
\* nor the first '.'
ValidStrings ==
    { <<"1", "2", "3">>,
      <<"1", "2", "3", ".">>,
      <<"1", "2", "3", ".", "0", "0", "0", "0">>,
      <<".", "0">>,
      <<"0", ".", "5">>,
      <<"0", ".", "1">>,
      <<"1", "2", ".", "7", "5">>,
      <<"1", ".", "9", "9", "9", "9", "9", "9", "9", "9">>,
      <<"0", ".", "9", "9", "9", "9", "9", "9", "9", "9">>,
      <<"0", ".", "0", "0", "3", "7">>,
      <<"5">>,
      <<" ", " ", "4", "2">>,
      <<"-", "1", "2", "3">>,
      <<"-", "1", "2", "3", ".">>,
      <<"-", "1", "2", "3", ".", "5">>,
      <<"-", "0", ".", "5">>,
      <<"1", ".", "9", "9", "9", "9", "9", "9", "9", "9", "9", "9", "9", "9", "9", "9", "9", "9">>,
      <<"0", ".", "0", "0", "0", "0", "1", "5">>,
      <<"1", "2", "3", ".", "3", "3", "9", "9", "8", "1", "0", "6", "8">>,
      <<"1", ".", "5">>,
      <<".">> }

InvalidStrings ==
    { <<"1", "2", "x">>,
      <<"x", "1">>,
      <<"1", ".", "5", "x">>,
      <<"1", ".", "5", ".", "5">>,
      <<"1", ".", "0", "0", "0", "0", "0", "0", "0", "0", "0", "0", "x">>,
      <<"1", ".", "0", "0", "0", "0", "0", "0", "0", "0", "0", "0", "0", "0", "0", "0", "0", "0", "0", "0", "0", "x">>,
      <<"1", " ", "2">>,
      <<"-", "-", "1">>,
      <<"1", "-">>,
      <<"1", ".", "-", "5">>,
      <<"1", ".", "0", "0", "0", "0", "0", "0", "0", "0", "0", "0", ".", "0">> }

\* unsigned decimal numbers, parsed with and without a leading '-'
UnsignedStrings ==
    { <<"1", "2", "3">>,
      <<"1", "2", "3", ".">>,
      <<"1", "2", "3", ".", "5">>,
      <<"0", ".", "5">>,
      <<"5">>,
      <<"1", "2", ".", "7", "5">> }

\* the shapes whose values are parsed, and those whose values are printed
ParseShapes == { <<16, 16>>, <<32, 32>> }

FormatShapes == { <<16, 16>>, <<32, 32>>, <<8, 24>>, <<2, 30>> }

\* backing integers of Q(16,16): 0, one ulp, 0.00375.., 1/3, 0.75, 1 - ulp,
\* 12.75, 123.339981068, and negative ones
RawSamples == { 0, 1, 246, 21845, 49152, 65535, 835584, 8083205, -21845, -835584 }

\* the values of shape s = <<I, F>>, F >= 16, with the backing integers of
\* RawSamples scaled to F fractional bits, and the values next to zero
StrValues(s) ==
    { wShl(wInt(r, IntTypeOf(s)), s[2] - 16) :
        r \in { q \in RawSamples :
                   s[1] >= 16 \/ (-(2^(s[1] + 15)) <= q /\ q < 2^(s[1] + 15)) } }
    \cup { wInt(r, IntTypeOf(s)) : r \in {1, 3, -1} }

\* the precisions toString is called with; -1 is the default
Precisions == { -1, 1, 2, 6, 8, 17 }

\* the shapes and the values toHex is called on: every backing width
HexShapes == { <<4, 4>>, <<8, 8>>, <<16, 16>>, <<32, 32>> }

HexValues(s) == { wInt(r, IntTypeOf(s)) : r \in {0, 1, 10, 90, 127, 835584, -1, -2, -128} }

StrArgs ==
    [f : {"fromString"}, s : ParseShapes, str : ValidStrings \cup InvalidStrings,
     ok : BOOLEAN, v : {<<>>}, prec : {-1}, zeropad : {FALSE}]
    \cup [f : {"negated"}, s : ParseShapes, str : UnsignedStrings,
          ok : {FALSE}, v : {<<>>}, prec : {-1}, zeropad : {FALSE}]
    \cup UNION { [f : {"toString"}, s : {s}, str : {<<>>}, ok : {FALSE},
                  v : StrValues(s), prec : Precisions, zeropad : BOOLEAN]
                 : s \in FormatShapes }
    \cup UNION { [f : {"parseloop"}, s : {s}, str : {<<>>}, ok : {FALSE},
                  v : StrValues(s), prec : {-1}, zeropad : {FALSE}]
                 : s \in ParseShapes }
    \cup UNION { [f : {"toHex"}, s : {s}, str : {<<>>}, ok : {FALSE},
                  v : HexValues(s), prec : {-1}, zeropad : {FALSE}]
                 : s \in HexShapes }

InitStr ==
    /\ pc = "call"
    /\ arg \in StrArgs
    /\ op = "none"
    /\ res = <<>>
    /\ err = "none"
    /\ sh = arg.s
    /\ x = <<>>
    /\ nops = 0
    /\ loc = <<>>

\* Fract::fromString(s, ok) enters detail::fromString<IntType>(s, F, ok)
CallFromString ==
    /\ pc = "call"
    /\ arg.f \in {"fromString", "negated"}
    /\ loc' = parse_begin(arg.str, IntTypeOf(arg.s))
    /\ pc' = "int"
    /\ op' = "fromString"
    /\ UNCHANGED <<arg, res, err, sh, x, nops>>

\* detail::fromString returns value; *ok is written when ok is not NULL
parse_returns(value, okv) ==
    /\ res' = value
    /\ loc' = [loc EXCEPT !.ok = IF arg.ok THEN okv ELSE "unset"]
    /\ pc' = "parsed"

\* one turn of the first loop of detail::fromString
ParseInt ==
    /\ pc = "int"
    /\ LET c == CharAt(loc.str, loc.i)
       IN  IF loc.i = Len(loc.str)
           THEN parse_returns(wShl(loc.xi, arg.s[2]), TRUE)
           ELSE IF IsDigit(c)
           THEN /\ loc' = [loc EXCEPT !.xi = parse_digit(loc.xi, c), !.i = loc.i + 1,
                                      !.ovf = loc.ovf \/ parse_digit_overflows(loc.xi, c)]
                /\ UNCHANGED <<pc, res>>
           ELSE IF c = "."
           THEN /\ loc' = [loc EXCEPT !.i = loc.i + 1, !.fi = 1]
                /\ pc' = "frac"
                /\ UNCHANGED res
           ELSE parse_returns(wNeg(wNat(1, Len(loc.xi))), FALSE)
    /\ UNCHANGED <<op, arg, err, sh, x, nops>>

\* one turn of the second loop of detail::fromString, and the statements
\* after it once the loop has ended
ParseFrac ==
    /\ pc = "frac"
    /\ LET n == Len(loc.xi)
           c == CharAt(loc.str, loc.i)
       IN  IF loc.i < Len(loc.str) /\ loc.fi < countof_inv(n) \div 2
           THEN IF IsDigit(c) /\ c # "0"
                THEN \E hw \in HwFor(div_pow10_undefined(n, DigitOf(c), loc.fi, 8 * n - 1)) :
                        /\ loc' = [loc EXCEPT
                                     !.xf = wAdd(loc.xf, div_pow10(n, DigitOf(c), loc.fi, 8 * n - 1, hw)),
                                     !.ovf = loc.ovf \/ wAddOvfS(loc.xf,
                                                 div_pow10(n, DigitOf(c), loc.fi, 8 * n - 1, hw)),
                                     !.i = loc.i + 1, !.fi = loc.fi + 1]
                        /\ UNCHANGED <<pc, res>>
                ELSE IF c = "0"
                THEN /\ loc' = [loc EXCEPT !.i = loc.i + 1, !.fi = loc.fi + 1]
                     /\ UNCHANGED <<pc, res>>
                ELSE parse_returns(wNeg(wNat(1, n)), FALSE)
           ELSE /\ res' = parse_result(loc, arg.s[2], "x86")
                /\ loc' = [loc EXCEPT !.ok = IF arg.ok THEN TRUE ELSE "unset",
                                      !.ovf = loc.ovf \/ parse_result_overflows(loc, arg.s[2])]
                /\ pc' = "parsed"
    /\ UNCHANGED <<op, arg, err, sh, x, nops>>

\* Fract::fromString returns gen(detail::fromString<IntType>(s, F, ok)).  Of
\* an unsigned string the negated one is parsed next; in parseloop the
\* error of the parsed value is taken next.
ParseReturn ==
    /\ pc = "parsed"
    /\ err' \in (IF loc.ovf THEN {"none", "Trap"} ELSE {"none"})
    /\ nops' = nops + 1
    /\ IF err' = "Trap"
       THEN /\ pc' = "done"
            /\ UNCHANGED <<x, loc>>
       ELSE IF arg.f = "negated" /\ nops = 0
       THEN /\ x' = res
            /\ loc' = parse_begin(<<"-">> \o arg.str, IntTypeOf(arg.s))
            /\ pc' = "int"
       ELSE IF arg.f = "parseloop"
       THEN /\ pc' = "error"
            /\ UNCHANGED <<x, loc>>
       ELSE /\ pc' = "done"
            /\ UNCHANGED <<x, loc>>
    /\ UNCHANGED <<op, arg, res, sh>>

\* Fract::toString(prec, zeropad) enters detail::toString(x, F, prec,
\* zeropad).  div_pow10 asserts exp*2 < countof(pow10_inv_table) and reads
\* past the table where the assertion is compiled out.
CallToString ==
    /\ pc = "call"
    /\ arg.f \in {"toString", "parseloop"}
    /\ op' = "toString"
    /\ LET n == IntTypeOf(arg.s)
           p == effective_prec(n, arg.s[2], arg.prec)
       IN  IF (p + 1) * 2 >= countof_inv(n)
           THEN /\ err' \in {"Abort", "Undefined"}
                /\ pc' = "done"
                /\ UNCHANGED loc
           ELSE /\ \E hw \in HwFor(div_pow10_undefined(n, 5, p + 1, arg.s[2])) :
                        loc' = format_begin(arg.v, arg.s[2], arg.prec, hw)
                /\ pc' = "digits"
                /\ UNCHANGED err
    /\ UNCHANGED <<arg, res, sh, x, nops>>

\* one turn of the loop of detail::toString
FormatDigit ==
    /\ pc = "digits"
    /\ format_continues(loc, arg.s[2], arg.zeropad)
    /\ loc' = format_digit(loc, arg.s[2])
    /\ UNCHANGED <<pc, op, arg, res, err, sh, x, nops>>

\* the loop of detail::toString ends and the string is returned; parseloop
\* passes it to fromString
FormatEnd ==
    /\ pc = "digits"
    /\ ~format_continues(loc, arg.s[2], arg.zeropad)
    /\ x' = format_end(loc, arg.zeropad)
    /\ nops' = nops + 1
    /\ IF arg.f = "parseloop"
       THEN /\ loc' = parse_begin(format_end(loc, arg.zeropad), IntTypeOf(arg.s))
            /\ pc' = "int"
            /\ op' = "fromString"
       ELSE /\ pc' = "done"
            /\ UNCHANGED <<loc, op>>
    /\ UNCHANGED <<arg, res, err, sh>>

\* F::error(f1a, f1b) of parseloop: the value and what was parsed from its
\* rendering
CallError ==
    /\ pc = "error"
    /\ \E c \in clz_results(error_diff(arg.v, res)) :
            loc' = [error |-> error(arg.v, res, c), diff |-> error_diff(arg.v, res)]
    /\ err' \in (IF wSubOvfS(arg.v, res) \/ wSub(arg.v, res) = wMinS(Len(res))
                 THEN {"none", "Trap"} ELSE {"none"})
    /\ pc' = "done"
    /\ op' = "error"
    /\ nops' = nops + 1
    /\ UNCHANGED <<arg, res, sh, x>>

\* "0123456789abcdef"
HexDigits == <<"0", "1", "2", "3", "4", "5", "6", "7", "8", "9",
               "a", "b", "c", "d", "e", "f">>

\* the loop of detail::toHex: while (i != 1) { buf[--i] = hex[x & 0xF];
\* x >>= 4; }, buf the characters at the positions i and above
RECURSIVE toHex_loop(_, _, _)
toHex_loop(xv, i, buf) ==
    IF i # 1
    THEN LET b == <<HexDigits[(xv[1] % 16) + 1]>> \o buf
             y == wShrL(xv, 4)
         IN  IF b = b /\ y = y THEN toHex_loop(y, i - 1, b) ELSE buf
    ELSE buf

\* detail::toHex(value): buf[1] = 'x' and buf[0] = '0' are written over what
\* the loop left; the string ends before the 0 at buf[sizeof(IntType)*2]
toHex(value) ==
    LET buf == toHex_loop(value, Len(value) * 2, <<>>)
    IN  <<"0", "x">> \o SubSeq(buf, 2, Len(buf))

\* Fract::toHex()
CallToHex ==
    /\ pc = "call"
    /\ arg.f = "toHex"
    /\ x' = toHex(arg.v)
    /\ pc' = "done"
    /\ op' = "toHex"
    /\ nops' = nops + 1
    /\ UNCHANGED <<arg, res, err, sh, loc>>

NextStr ==
    \/ CallFromString \/ ParseInt \/ ParseFrac \/ ParseReturn
    \/ CallToString \/ FormatDigit \/ FormatEnd \/ CallError \/ CallToHex

SpecStr == InitStr /\ [][NextStr]_vars

\* ------------------------------------------------- decimal strings, checked

\* where the number starts in s: after the leading blanks and one '-'
NumberStart(s) ==
    LET b == CHOOSE k \in 0..Len(s) :
                 /\ \A j \in 0..(k - 1) : CharAt(s, j) = " "
                 /\ CharAt(s, k) # " "
    IN  IF CharAt(s, b) = "-" THEN b + 1 ELSE b

\* s is blanks, an optional '-', then digits with at most one '.'
IsDecimal(s) ==
    /\ \A j \in NumberStart(s)..(Len(s) - 1) : IsDigit(CharAt(s, j)) \/ CharAt(s, j) = "."
    /\ Cardinality({ j \in NumberStart(s)..(Len(s) - 1) : CharAt(s, j) = "." }) <= 1

\* s has a '-' before its number
IsNegated(s) == NumberStart(s) > 0 /\ CharAt(s, NumberStart(s) - 1) = "-"

\* the number of digits of s after its '.'
FractionDigits(s) ==
    Cardinality({ j \in NumberStart(s)..(Len(s) - 1) :
                    \E d \in NumberStart(s)..(j - 1) : CharAt(s, d) = "." })

\* 10^0 .. 10^23 on 24 limbs
Pow10Table ==
    << <<1, 0, 0, 0, 0, 0, 0, 0, 0, 0, 0, 0, 0, 0, 0, 0, 0, 0, 0, 0, 0, 0, 0, 0>>,
       <<10, 0, 0, 0, 0, 0, 0, 0, 0, 0, 0, 0, 0, 0, 0, 0, 0, 0, 0, 0, 0, 0, 0, 0>>,
       <<100, 0, 0, 0, 0, 0, 0, 0, 0, 0, 0, 0, 0, 0, 0, 0, 0, 0, 0, 0, 0, 0, 0, 0>>,
       <<232, 3, 0, 0, 0, 0, 0, 0, 0, 0, 0, 0, 0, 0, 0, 0, 0, 0, 0, 0, 0, 0, 0, 0>>,
       <<16, 39, 0, 0, 0, 0, 0, 0, 0, 0, 0, 0, 0, 0, 0, 0, 0, 0, 0, 0, 0, 0, 0, 0>>,
       <<160, 134, 1, 0, 0, 0, 0, 0, 0, 0, 0, 0, 0, 0, 0, 0, 0, 0, 0, 0, 0, 0, 0, 0>>,
       <<64, 66, 15, 0, 0, 0, 0, 0, 0, 0, 0, 0, 0, 0, 0, 0, 0, 0, 0, 0, 0, 0, 0, 0>>,
       <<128, 150, 152, 0, 0, 0, 0, 0, 0, 0, 0, 0, 0, 0, 0, 0, 0, 0, 0, 0, 0, 0, 0, 0>>,
       <<0, 225, 245, 5, 0, 0, 0, 0, 0, 0, 0, 0, 0, 0, 0, 0, 0, 0, 0, 0, 0, 0, 0, 0>>,
       <<0, 202, 154, 59, 0, 0, 0, 0, 0, 0, 0, 0, 0, 0, 0, 0, 0, 0, 0, 0, 0, 0, 0, 0>>,
       <<0, 228, 11, 84, 2, 0, 0, 0, 0, 0, 0, 0, 0, 0, 0, 0, 0, 0, 0, 0, 0, 0, 0, 0>>,
       <<0, 232, 118, 72, 23, 0, 0, 0, 0, 0, 0, 0, 0, 0, 0, 0, 0, 0, 0, 0, 0, 0, 0, 0>>,
       <<0, 16, 165, 212, 232, 0, 0, 0, 0, 0, 0, 0, 0, 0, 0, 0, 0, 0, 0, 0, 0, 0, 0, 0>>,
       <<0, 160, 114, 78, 24, 9, 0, 0, 0, 0, 0, 0, 0, 0, 0, 0, 0, 0, 0, 0, 0, 0, 0, 0>>,
       <<0, 64, 122, 16, 243, 90, 0, 0, 0, 0, 0, 0, 0, 0, 0, 0, 0, 0, 0, 0, 0, 0, 0, 0>>,
       <<0, 128, 198, 164, 126, 141, 3, 0, 0, 0, 0, 0, 0, 0, 0, 0, 0, 0, 0, 0, 0, 0, 0, 0>>,
       <<0, 0, 193, 111, 242, 134, 35, 0, 0, 0, 0, 0, 0, 0, 0, 0, 0, 0, 0, 0, 0, 0, 0, 0>>,
       <<0, 0, 138, 93, 120, 69, 99, 1, 0, 0, 0, 0, 0, 0, 0, 0, 0, 0, 0, 0, 0, 0, 0, 0>>,
       <<0, 0, 100, 167, 179, 182, 224, 13, 0, 0, 0, 0, 0, 0, 0, 0, 0, 0, 0, 0, 0, 0, 0, 0>>,
       <<0, 0, 232, 137, 4, 35, 199, 138, 0, 0, 0, 0, 0, 0, 0, 0, 0, 0, 0, 0, 0, 0, 0, 0>>,
       <<0, 0, 16, 99, 45, 94, 199, 107, 5, 0, 0, 0, 0, 0, 0, 0, 0, 0, 0, 0, 0, 0, 0, 0>>,
       <<0, 0, 160, 222, 197, 173, 201, 53, 54, 0, 0, 0, 0, 0, 0, 0, 0, 0, 0, 0, 0, 0, 0, 0>>,
       <<0, 0, 64, 178, 186, 201, 224, 25, 30, 2, 0, 0, 0, 0, 0, 0, 0, 0, 0, 0, 0, 0, 0, 0>>,
       <<0, 0, 128, 246, 74, 225, 199, 2, 45, 21, 0, 0, 0, 0, 0, 0, 0, 0, 0, 0, 0, 0, 0, 0>> >>

\* 10^k on 24 limbs, 0 <= k <= 23
Pow10(k) == Pow10Table[k + 1]

\* the integer that the digits of s from position j on spell, on 24 limbs:
\* the sum of digit * 10^(number of digits that follow it)
RECURSIVE DecimalOf(_, _, _)
DecimalOf(s, j, acc) ==
    IF j >= Len(s) THEN acc
    ELSE IF IsDigit(CharAt(s, j))
    THEN LET follow == Cardinality({ i \in (j + 1)..(Len(s) - 1) : IsDigit(CharAt(s, i)) })
             sum    == wAdd(acc, wMul(wNat(DigitOf(CharAt(s, j)), 24), Pow10(follow)))
         IN  IF sum = sum THEN DecimalOf(s, j + 1, sum) ELSE acc
    ELSE DecimalOf(s, j + 1, acc)

\* |a| of a signed word
Magnitude(a) == IF wIsNeg(a) THEN wNeg(a) ELSE a

\* the signed integer D with s = D / 10^FractionDigits(s)
SignedDecimal(s) ==
    IF IsNegated(s) THEN wNeg(DecimalOf(s, NumberStart(s), wZero(24)))
    ELSE DecimalOf(s, NumberStart(s), wZero(24))

\* the value of s, rounded to an integer either way, lies within Q(I,F):
\* |D| < (2^(I-1) - 1) * 10^k
InRangeOf(s, shape) ==
    LET d     == Magnitude(SignedDecimal(s))
        limit == wMul(wSub(wShl(wNat(1, 24), shape[1] - 1), wNat(1, 24)),
                      Pow10(FractionDigits(s)))
    IN  IF d = d /\ limit = limit THEN wSLt(d, limit) ELSE FALSE

\* r is a backing integer nearest to d * 2^F for the decimal string s of
\* value d = D / 10^k: 2 * |r * 10^k - D * 2^F| <= 10^k
IsNearest(r, s, F) ==
    LET k == FractionDigits(s)
        m == wMul(wSExt(r, 24), Pow10(k))
        d == wShl(SignedDecimal(s), F)
        e == wSub(m, d)
    IN  IF m = m /\ d = d /\ e = e
        THEN wSLe(wShl(Magnitude(e), 1), Pow10(k))
        ELSE FALSE

\* C15: a value of Q(16,16) or Q(32,32) printed with the default precision
\* and parsed back differs from itself by at most two bits: the error,
\* log2_ceil of the difference, is at most 2, and nothing is raised.
C15_RoundTripWithinTwoBits ==
    (pc = "done" /\ arg.f = "parseloop") =>
        /\ err = "none"
        /\ loc.error <= 2

\* C16: "-" followed by an unsigned decimal string parses to the negation
\* of what the string itself parses to, with or without a '.'.
C16_MinusNegates ==
    (pc = "done" /\ arg.f = "negated") =>
        /\ err = "none"
        /\ res = wNeg(x)

\* C17: with an ok flag supplied, fromString sets it to false and returns
\* -1 for every string holding a character other than digits and one '.',
\* wherever the character stands, and sets it to true for every string of
\* digits with at most one '.'.
C17_OkIffDecimal ==
    (pc = "done" /\ arg.f = "fromString" /\ arg.ok) =>
        IF IsDecimal(arg.str) THEN loc.ok = TRUE
        ELSE loc.ok = FALSE /\ res = wNeg(wNat(1, Len(res)))

\* C18: without an ok flag, Fract::fromString of a string that is not a
\* decimal number raises a Domain error and returns no value.
C18_InvalidWithoutFlagIsDomainError ==
    (pc = "done" /\ arg.f = "fromString" /\ ~arg.ok /\ ~IsDecimal(arg.str)) =>
        err = "DomainError"

\* C19: for a decimal string whose value d lies within Q(I,F), fromString
\* raises nothing and returns a backing integer nearest to d * 2^F; a
\* fraction that rounds up carries into the integer part.
C19_ParseRoundsToNearest ==
    (pc = "done" /\ arg.f = "fromString" /\ IsDecimal(arg.str)
        /\ InRangeOf(arg.str, arg.s)) =>
        /\ err = "none"
        /\ IsNearest(res, arg.str, arg.s[2])

\* the position of the '.' in a printed string, counted from 0
PointOf(s) == CHOOSE j \in 0..Len(s) : CharAt(s, j) = "." \/ j = Len(s)

\* s is an optional '-', digits, '.', and from one to p digits (p digits
\* when zero-padded)
IsPrinted(s, negative, p, zeropad) ==
    LET b == IF negative THEN 1 ELSE 0
    IN  /\ (CharAt(s, 0) = "-") = negative
        /\ PointOf(s) > b
        /\ PointOf(s) < Len(s) - 1
        /\ \A j \in b..(Len(s) - 1) : j # PointOf(s) => IsDigit(CharAt(s, j))
        /\ Len(s) - 1 - PointOf(s) <= (IF p = 0 THEN 1 ELSE p)
        /\ zeropad /\ p > 0 => Len(s) - 1 - PointOf(s) = p

\* the printed string s as an integer count of 10^-p, on 24 limbs
PrintedUnits(s, p) ==
    wMul(DecimalOf(s, 0, wZero(24)), Pow10(p - (Len(s) - 1 - PointOf(s))))

\* C20: for an effective precision p in 1..MAX_LOG10-1, toString prints
\* the sign, the integer part and at most p fractional digits, all in 0..9,
\* and the printed number is |x| / 2^F rounded at the p-th decimal digit:
\* it differs from |x| / 2^F by at most 0.5 * 10^-p, that is
\* 2 * |printed * 2^F - |x| * 10^p| <= 2^F.
C20_PrintRoundsHalfUp ==
    (pc = "done" /\ arg.f = "toString"
        /\ effective_prec(IntTypeOf(arg.s), arg.s[2], arg.prec) \in
               1..(MAX_LOG10(IntTypeOf(arg.s)) - 1)) =>
        LET p == effective_prec(IntTypeOf(arg.s), arg.s[2], arg.prec)
            X == Magnitude(wSExt(arg.v, 24))
            e == wSub(wShl(PrintedUnits(x, p), arg.s[2]), wMul(X, Pow10(p)))
        IN  /\ err = "none"
            /\ IsPrinted(x, wIsNeg(arg.v), p, arg.zeropad)
            /\ wSLe(wShl(Magnitude(e), 1), wShl(wNat(1, 24), arg.s[2]))

\* -------------------------------------------- zero padding of toString

\* the loop of detail::toString run to its end with zeropad = true
RECURSIVE PaddedRun(_, _)
PaddedRun(l, F) ==
    IF l.k < l.prec
    THEN LET m == format_digit(l, F)
         IN  IF m = m THEN PaddedRun(m, F) ELSE l
    ELSE l

\* d without the zeros at its end, "0" when nothing is left
WithoutTrailingZeros(d) ==
    LET last == CHOOSE j \in 0..Len(d) :
                    /\ j > 0 => d[j] # "0"
                    /\ \A i \in (j + 1)..Len(d) : d[i] = "0"
    IN  IF last = 0 THEN <<"0">> ELSE SubSeq(d, 1, last)

\* C21: for an effective precision p >= 1, toString(p, true) prints exactly
\* p digits after the '.', and toString(p, false) prints the integer part
\* and the digits of the padded rendering without their trailing zeros, at
\* least one digit being left ("<n>.0" for an integer value).
C21_PaddedAndStrippedAgree ==
    (pc = "done" /\ arg.f = "toString"
        /\ effective_prec(IntTypeOf(arg.s), arg.s[2], arg.prec) >= 1) =>
        LET n == IntTypeOf(arg.s)
            F == arg.s[2]
            p == effective_prec(n, F, arg.prec)
        IN  /\ err = "none"
            /\ \E hw \in HwFor(div_pow10_undefined(n, 5, p + 1, F)) :
                   LET full == PaddedRun(format_begin(arg.v, F, arg.prec, hw), F)
                   IN  /\ Len(full.frac) = p
                       /\ x = full.integ \o (IF arg.zeropad THEN full.frac
                                             ELSE WithoutTrailingZeros(full.frac))

\* C21 for the calls whose rounding addend is within the table of
\* reciprocals of powers of ten
C21_PaddedAndStrippedAgreeInTable ==
    (pc = "done" /\ arg.f = "toString"
        /\ effective_prec(IntTypeOf(arg.s), arg.s[2], arg.prec) \in
               1..(MAX_LOG10(IntTypeOf(arg.s)) - 1)) =>
        LET n == IntTypeOf(arg.s)
            F == arg.s[2]
            p == effective_prec(n, F, arg.prec)
        IN  /\ err = "none"
            /\ \E hw \in HwFor(div_pow10_undefined(n, 5, p + 1, F)) :
                   LET full == PaddedRun(format_begin(arg.v, F, arg.prec, hw), F)
                   IN  /\ Len(full.frac) = p
                       /\ x = full.integ \o (IF arg.zeropad THEN full.frac
                                             ELSE WithoutTrailingZeros(full.frac))

\* ------------------------------------------------------------- toHex

\* the hexadecimal digit of value v in 0..15
HexOf(v) == SubSeq(<<"0", "1", "2", "3", "4", "5", "6", "7", "8", "9",
                     "a", "b", "c", "d", "e", "f">>, v + 1, v + 1)

\* the 2 * Len(a) hexadecimal digits of the word a, most significant first
RECURSIVE AllNibbles(_, _)
AllNibbles(a, k) ==
    IF k = 0 THEN <<>>
    ELSE HexOf(a[k] \div 16) \o HexOf(a[k] % 16) \o AllNibbles(a, k - 1)

\* C22: toHex returns "0x" followed by the W/4 hexadecimal digits of the
\* whole backing integer in two's complement, most significant digit first.
C22_HexIsWholeBackingInteger ==
    (pc = "done" /\ arg.f = "toHex") =>
        /\ err = "none"
        /\ x = <<"0", "x">> \o AllNibbles(arg.v, Len(arg.v))

\* ------------------------------------------------ the error-policy macros

\* how the library is built: FRACT_CHECKS_WITH_EXCEPTIONS defined; not
\* defined, assert active; not defined, assert compiled out by NDEBUG
Builds == {"exceptions", "assert", "release"}

\* OVERFLOW_IF(c): throwFractOverflowError() if c, or assert(c)
OVERFLOW_IF(c, build) ==
    IF build = "exceptions" THEN (IF c THEN "Overflow" ELSE "none")
    ELSE IF build = "assert" THEN (IF c THEN "none" ELSE "Abort")
    ELSE "none"

\* DOMAIN_IF(c): throwFractDomainError() if c, or assert(c)
DOMAIN_IF(c, build) ==
    IF build = "exceptions" THEN (IF c THEN "DomainError" ELSE "none")
    ELSE IF build = "assert" THEN (IF c THEN "none" ELSE "Abort")
    ELSE "none"

\* the shapes and the calls made under each build: a + b, a - b, Fract(int)
\* and sqrt_fast(a)
PolicyShapes == { <<8, 8>>, <<16, 16>>, <<32, 32>> }

PolicyArgs ==
    UNION { [f : {"+", "-"}, build : Builds, s : {s}, s2 : {s},
             v : ValuesOf[s], b : Operands[s]] : s \in PolicyShapes }
    \cup UNION { [f : {"Fract_int"}, build : Builds, s : {s}, s2 : {s},
                  v : IntSamples(s), b : {<<>>}] : s \in PolicyShapes }
    \cup UNION { [f : {"sqrt_fast"}, build : Builds, s : {s}, s2 : {Half(s)},
                  v : ValuesOf[s], b : {<<>>}] : s \in PolicyShapes }

InitPolicy ==
    /\ pc = "call"
    /\ arg \in PolicyArgs
    /\ op = "none"
    /\ res = <<>>
    /\ err = "none"
    /\ sh = arg.s
    /\ x = arg.v
    /\ nops = 0
    /\ loc = <<>>

\* a call ends at a check that fails, with e what the check did
PolicyEnds(e) ==
    /\ err' = e
    /\ pc' = "done"
    /\ UNCHANGED <<res, loc>>

\* operator+(Fract f): OVERFLOW_IF(AnyInt::AddOverflow(x, f.x)); return
\* gen(x + f.x).  An int or int64_t sum that overflows is undefined: it
\* wraps, or traps.
PolicyAdd ==
    /\ pc = "call"
    /\ arg.f = "+"
    /\ LET e == OVERFLOW_IF(AddOverflow(arg.v, arg.b), arg.build)
       IN  IF e # "none" THEN PolicyEnds(e)
           ELSE /\ res' = wSExt(wAdd(Promote(arg.v), Promote(arg.b)), Len(arg.v))
                /\ err' \in (IF Len(arg.v) >= 4 /\ wAddOvfS(arg.v, arg.b)
                             THEN {"none", "Trap"} ELSE {"none"})
                /\ pc' = "done"
                /\ UNCHANGED loc
    /\ op' = arg.f
    /\ nops' = nops + 1
    /\ UNCHANGED <<arg, sh, x>>

\* operator-(Fract f): OVERFLOW_IF(AnyInt::SubOverflow(x, f.x)); return
\* gen(x - f.x)
PolicySub ==
    /\ pc = "call"
    /\ arg.f = "-"
    /\ LET e == OVERFLOW_IF(SubOverflow(arg.v, arg.b), arg.build)
       IN  IF e # "none" THEN PolicyEnds(e)
           ELSE /\ res' = wSExt(wSub(Promote(arg.v), Promote(arg.b)), Len(arg.v))
                /\ err' \in (IF Len(arg.v) >= 4 /\ wSubOvfS(arg.v, arg.b)
                             THEN {"none", "Trap"} ELSE {"none"})
                /\ pc' = "done"
                /\ UNCHANGED loc
    /\ op' = arg.f
    /\ nops' = nops + 1
    /\ UNCHANGED <<arg, sh, x>>

\* Fract(int i): OVERFLOW_IF(!fit_in(i, I)); x = IntType(i) << F
PolicyInt ==
    /\ pc = "call"
    /\ arg.f = "Fract_int"
    /\ LET e == OVERFLOW_IF(~fit_in(arg.v, arg.s[1]), arg.build)
       IN  IF e # "none" THEN PolicyEnds(e)
           ELSE /\ res' = wSExt(wShl(Promote(wSExt(arg.v, IntTypeOf(arg.s))), arg.s[2]),
                                IntTypeOf(arg.s))
                /\ pc' = "done"
                /\ UNCHANGED <<err, loc>>
    /\ op' = arg.f
    /\ nops' = nops + 1
    /\ UNCHANGED <<arg, sh, x>>

\* sqrt_fast(x) up to its loop: DOMAIN_IF(x < 0), the comparison
\* converting 0 with Fract(int) and its OVERFLOW_IF(!fit_in(0, I))
PolicySqrtFast ==
    /\ pc = "call"
    /\ arg.f = "sqrt_fast"
    /\ LET e0 == OVERFLOW_IF(~fit_in(wZero(4), arg.s[1]), arg.build)
           e1 == DOMAIN_IF(wIsNeg(arg.v), arg.build)
       IN  IF e0 # "none" THEN PolicyEnds(e0)
           ELSE IF e1 # "none" THEN PolicyEnds(e1)
           ELSE \E c \in clz_results(arg.v) :
                    IF sqrt_fast_locals(arg.v, c).bshft < 0 THEN PolicyEnds("Undefined")
                    ELSE /\ loc' = sqrt_fast_locals(arg.v, c)
                         /\ pc' = "loop"
                         /\ UNCHANGED <<res, err>>
    /\ op' = arg.f
    /\ UNCHANGED <<arg, sh, x, nops>>

NextPolicy == PolicyAdd \/ PolicySub \/ PolicyInt \/ PolicySqrtFast \/ SqrtIterate

SpecPolicy == InitPolicy /\ [][NextPolicy]_vars

\* the condition under which the build with exceptions raises in the call
Flagged ==
    CASE arg.f = "+" -> AddOverflow(arg.v, arg.b)
      [] arg.f = "-" -> SubOverflow(arg.v, arg.b)
      [] arg.f = "Fract_int" -> ~fit_in(arg.v, arg.s[1])
      [] arg.f = "sqrt_fast" -> ~fit_in(wZero(4), arg.s[1]) \/ wIsNeg(arg.v)

\* C23: the two error-policy modes flag the same calls: in the build with
\* assertions a call ends in the fatal diagnostic exactly when the build
\* with exceptions raises FractOverflowError or FractDomainError in it.
C23_AssertBuildFlagsTheSameCalls ==
    /\ (pc = "done" /\ arg.build = "assert") => ((err = "Abort") <=> Flagged)
    /\ (pc = "done" /\ arg.build = "exceptions") =>
            ((err \in {"Overflow", "DomainError"}) <=> Flagged)

\* --------------------------------------------- MulHU with a larger shift

\* floor((a * b) / 2^shift) on the product at twice the width
ShiftedProduct(a, b, shift) == wZExt(wShrL(wMulFull(a, b), shift), Len(a))

\* C24: for 64-bit operands and every shift in [W, 2W), the split-halves
\* MulHU returns floor((a * b) / 2^shift), as the double-width
\* implementation (multiply at 2W bits, shift right) does.
C24_SplitHalvesMulHUIsExact ==
    (pc = "done" /\ op \in {"MulHU", "MulHUShift"} /\ Len(arg.a) = 8) =>
        /\ arg.shift \in 64..127
        /\ res = ShiftedProduct(arg.a, arg.b, arg.shift)

\* ------------------------------------------------ sqrt_fast, bit-exact

\* C25: for every x >= 0 of Q(I,F), sqrt_fast(x) returns the Q(I/2,F/2)
\* value with backing integer g such that g^2 <= x.x < (g+1)^2, and that
\* value is the real square root of x truncated to F/2 fractional bits:
\* g^2 * 2^(F - 2*(F/2)) <= x.x < (g+1)^2 * 2^(F - 2*(F/2)).
C25_SqrtFastIsBitExact ==
    (pc = "done" /\ op = "sqrt_fast" /\ arg.f = "sqrt_fast" /\ ~wIsNeg(arg.v)) =>
        /\ err = "none"
        /\ LET g   == wSExt(res, 16)
               g1  == wAdd(g, wNat(1, 16))
               v   == wSExt(arg.v, 16)
               odd == arg.s[2] - 2 * (arg.s[2] \div 2)
           IN  /\ ~wIsNeg(res)
               /\ wSLe(wMul(g, g), v)
               /\ wSLt(v, wMul(g1, g1))
               /\ wSLe(wShl(wMul(g, g), odd), v)
               /\ wSLt(v, wShl(wMul(g1, g1), odd))

\* --------------------------------------- reciprocal of signed operands

\* evaluate<prec>() run from the state l to its return, assertions
\* compiled out
RECURSIVE Evaluated(_, _)
Evaluated(l, prec) ==
    IF l.stage = "ret" THEN l
    ELSE LET m == IF l.stage \in DOMAIN NrPrec THEN nr_step(l, prec)
                  ELSE IF l.stage = "final" THEN sharpen(l)
                  ELSE correct(l, prec)
         IN  IF m = m THEN Evaluated(m, prec) ELSE l

\* the backing integer of reciprocal(Fract<I,F>::gen(v)) * Fract<I,F>::gen(a)
\* in a build that treats undefined shifts as hw does
ProductOf(s, v, a, hw) ==
    LET c == CHOOSE k \in clz_results(v) : TRUE
        l == Evaluated(evaluate_begin(reciprocal(s, v), s[1] + s[2], c, hw), s[1] + s[2])
    IN  IF l = l THEN wSExt(operator_mul(l, s, a, hw), Len(a)) ELSE <<>>

\* the signed words p and q differ by at most one
WithinOne(p, q) ==
    LET d == wSub(wSExt(p, 16), wSExt(q, 16))
    IN  d \in {wZero(16), wNat(1, 16), wNeg(wNat(1, 16))}

\* C26: the reciprocal handles signed operands: where the divisor v is
\* negative, reciprocal(v) * b is -(reciprocal(-v) * b), and where b is
\* negative, reciprocal(v) * b is -(reciprocal(v) * (-b)), each within one
\* unit in the last place.
C26_ReciprocalIsOddInBothOperands ==
    (pc = "done" /\ op = "reciprocal" /\ err = "none"
        /\ arg.v # wZero(Len(arg.v)) /\ arg.a # wZero(Len(arg.a))) =>
        \E hw \in Hw :
            /\ res = ProductOf(arg.s, arg.v, arg.a, hw)
            /\ wIsNeg(arg.v) =>
                   WithinOne(res, wNeg(ProductOf(arg.s, wNeg(arg.v), arg.a, hw)))
            /\ wIsNeg(arg.a) =>
                   WithinOne(res, wNeg(ProductOf(arg.s, arg.v, wNeg(arg.a), hw)))

\* ----------------------------------------- precision of the reciprocal

\* the width in limbs of the words the error bound is computed on
Wide == 32

\* what evaluate left in the carrier, as the number R with
\* R / 2^result_shift the reciprocal: the result read as unsigned, plus 2^W
\* where result_highestbit is set
CarrierValue(l) ==
    wAdd(wZExt(l.result, Wide),
         IF l.highestbit = 1 THEN wShl(wNat(1, Wide), 8 * Len(l.result))
         ELSE wZero(Wide))

\* |R * v - 2^(F + result_shift)|, zero when R / 2^result_shift is 2^F / v
CarrierError(l, v, F) ==
    LET d == wSub(wMul(CarrierValue(l), wZExt(v, Wide)),
                  wShl(wNat(1, Wide), F + l.shift))
    IN  IF wIsNeg(d) THEN wNeg(d) ELSE d

\* C27: for a positive input v and the precision P = I + F, what
\* evaluate<P>() returns, read with result_shift and result_highestbit,
\* is 1/v with a relative error below 2^-P, and exactly 1/v when v is a
\* power of two.
C27_ReciprocalHasRequestedPrecision ==
    (op = "evaluate" /\ pc = "eval" /\ loc.stage = "ret" /\ ~wIsNeg(arg.v)
        /\ arg.v # wZero(Len(arg.v))) =>
        LET P == arg.e
            e == CarrierError(loc, arg.v, arg.s[2])
        IN  /\ wULt(wShl(e, P), wShl(wNat(1, Wide), arg.s[2] + loc.shift))
            /\ wShl(loc.input, 1) = wZero(Len(loc.input)) => e = wZero(Wide)

\* -------------------------------------- the final sharpening of evaluate

\* result_shift as evaluate sets it before anything else
FirstResultShift == 2 * wBits(arg.v) - clz(arg.v) - arg.s[2] - 1

div_pow10_reads_normalised(n, exp) ==
    /\ exp > 0
    /\ exp * 2 < countof_inv(n)
    /\ pow10_inv_table(n)[exp + 1][1][n] >= 128

\* C29: the rounding call div_pow10(5, prec+1, F) of toString, and every
\* div_pow10(digit, fi, W-1) of fromString, has exp > 0 and
\* exp*2 < countof(pow10_inv_table) and reads a row of the table that is
\* initialised with the top bit of its mantissa set.
C29_DivPow10StaysInTheTable ==
    LET n == IntTypeOf(arg.s)
    IN  /\ (op = "toString" /\ arg.f \in {"toString", "parseloop"}) =>
               div_pow10_reads_normalised(n, effective_prec(n, arg.s[2], arg.prec) + 1)
        /\ (/\ pc = "frac"
            /\ loc.i < Len(loc.str)
            /\ loc.fi < countof_inv(n) \div 2
            /\ IsDigit(CharAt(loc.str, loc.i))
            /\ CharAt(loc.str, loc.i) # "0") =>
               div_pow10_reads_normalised(n, loc.fi)

\* ---------------------------------------------------------------------
\* The generic C implementation of AnyInt::clz, compiled where __GNUC__ is
\* not defined, one turn of its loop at a time.
\* ---------------------------------------------------------------------

\* the turns of the loop that are followed past the width of IntType; the
\* loop itself is not bounded
MaxTurnsPast == 3

\* the nonzero operands clz is called on, of every width
ClzArgs == UNION { Samples(n) \ {wZero(n)} : n \in Widths }

InitClz ==
    /\ pc = "call"
    /\ arg \in ClzArgs
    /\ op = "none"
    /\ res = <<>>
    /\ err = "none"
    /\ sh = NoShape
    /\ x = <<>>
    /\ nops = 0
    /\ loc = <<>>

\* int c = bitsof(IntType);
CallClz ==
    /\ pc = "call"
    /\ op' = "clz"
    /\ loc' = [x |-> arg, c |-> wBits(arg)]
    /\ pc' = "while"
    /\ UNCHANGED <<arg, res, err, sh, x, nops>>

\* while (x) { x >>= 1; ++c; } with x of the signed IntType
ClzTurn ==
    /\ pc = "while"
    /\ loc.x # wZero(Len(loc.x))
    /\ loc.c < 2 * wBits(arg) + MaxTurnsPast
    /\ loc' = [x |-> wShrA(loc.x, 1), c |-> loc.c + 1]
    /\ UNCHANGED <<pc, op, arg, res, err, sh, x, nops>>

\* return c; and Log2Ceil(x) returns bitsof(IntType) - clz(x)
ClzReturn ==
    /\ pc = "while"
    /\ loc.x = wZero(Len(loc.x))
    /\ res' = Log2Ceil(arg, loc.c)
    /\ pc' = "done"
    /\ nops' = nops + 1
    /\ UNCHANGED <<op, arg, err, sh, x, loc>>

NextClz == CallClz \/ ClzTurn \/ ClzReturn

SpecClz == InitClz /\ [][NextClz]_vars

\* C30: the portable clz loop ends for every nonzero input, negative ones
\* included, after no more turns than IntType has bits, and returns the
\* number of leading zero bits the intrinsic returns, so that
\* Log2Ceil(x) = W - clz(x) is the bit length of x.
C30_PortableClzIsTheIntrinsic ==
    op = "clz" =>
        /\ loc.c - wBits(arg) <= wBits(arg)
        /\ pc = "done" =>
               /\ loc.c = clz(arg)
               /\ res = wBitLen(arg, Len(arg))

====
